---- MODULE Spec2Model ----
(***************************************************************************)
(* Model of Sage's background task engine (src/utils/task_queue.py), its   *)
(* status helpers (src/utils/async_operations.py) and its tiered memory    *)
(* store (src/core/memory.py).                                             *)
(*                                                                         *)
(* Threads of the program are modelled as interleaved processes:           *)
(*   client[c]  a caller thread issuing add_task / start / stop /          *)
(*              cancel_task / background_task_status                       *)
(*   loop[l]    a dispatch-loop thread running TaskQueue._process_queue    *)
(*   worker[t]  the pool worker or dedicated thread executing task t       *)
(* One step is one block of code between two points where another thread   *)
(* can observe or change the shared fields.                                *)
(***************************************************************************)
EXTENDS Integers, Sequences, FiniteSets, TLC

\* ---- bounds of the model
MaxTasks == 2
MaxLoops == 2
MaxCalls == 3
MaxOrderTasks == 4
MaxStopTasks == 1
MaxCallbackTasks == 2
MaxCleanupTasks == 2
\* the last value of the clock, and the largest max_age passed
MaxTime == 3
MaxAge == 1
\* the largest timeout passed to wait_for_task
MaxTimeout == 1
MaxWaitTasks == 1
\* the tasks submitted in SpecRunFair and in SpecRestartFair
MaxRunTasks == 1
MaxRestartTasks == 2
MaxLifeTasks == 1
MaxLifeCalls == 2
MaxForeverTasks == 1
\* the cancel_task calls made in SpecRunFair
MaxRunCancels == 1
\* the capacities of the two logs (50 and 500 entries in memory.py), scaled
\* down with LONG_TERM_MAX kept above MAX_HISTORY
MAX_HISTORY == 2
LONG_TERM_MAX == 3
\* the last timestamp handed out, and the longest short-term log found on
\* disk at construction
MaxClock == 5
\* the last timestamp at which SpecLog starts a log_interaction call
MaxLogClock == 3
\* the last timestamp at which SpecPersist starts a log_interaction or
\* trim_memory call
MaxPersistClock == 2
MaxInitLen == 1
\* the calls of speak_text_edge_tts the script makes
MaxSpeaks == 2
\* the last timestamp at which SpecSearch starts a log_interaction call
MaxSearchClock == 2
\* the largest `limit` passed to get_long_term_context and summarize_recent
MaxLimit == 3

\* ---- program constants
\* Task.priority = kwargs.pop('priority', 0): add_task binds `priority` as a
\* named parameter, so it is never in kwargs and the attribute is the default.
DefaultPriority == 0
\* add_task(..., priority: int = 0, ...)
AddTaskPriority == 0
\* add_task(..., callback: Callable = None, ...): no callback
AddTaskCallback == FALSE
\* stop(): self._worker_thread.join(timeout=2.0), in tenths of a second
JoinWorkerTimeout == 20
\* stop(): thread.join(timeout=0.5), in tenths of a second
JoinThreadTimeout == 5
\* Task.__init__: self.completed_at = None, falsy as no time.time() value is
NoTime == 0
\* memory.py: the importance thresholds
HIGH_IMPORTANCE_THRESHOLD == 4
LOW_IMPORTANCE_THRESHOLD == 2
\* promote_memory(idx, new_importance=5), demote_memory(idx, new_importance=1)
PromoteImportance == 5
DemoteImportance == 1
\* trim_memory: "importance": 1 of the summary entry
SummaryImportance == 1
\* classify_importance: `return 1` when the reply has no digit 1..5 or the
\* call raised
DefaultImportance == 1
\* log_interaction(..., importance=None): the argument left out
Omitted == 0

\* the caller threads: the thread that submits, cancels and polls (the GUI
\* thread of interface/qt_app.py) and the thread that owns the engine's life
\* cycle (initialize() and the atexit hook of utils/async_operations.py)
Clients == {"ui", "main"}
LoopIds == 1..MaxLoops
Priorities == {0, 1, 2}

None == "None"
PENDING == "pending"
RUNNING == "running"
COMPLETED == "completed"
FAILED == "failed"
CANCELLED == "cancelled"
TaskStatus == {PENDING, RUNNING, COMPLETED, FAILED, CANCELLED}
Terminal == {COMPLETED, FAILED, CANCELLED}

\* what a task's callable can do when invoked
Returns == {"value", None}
Raised == "Exception"

VARIABLES
    task,                 \* Task objects by id: status, result, error, ...
    _tasks,               \* TaskQueue._tasks: the ids in the task map
    _task_queue,          \* the PriorityQueue's heap list of <<priority, id>>
    _running,             \* TaskQueue._running
    _worker_thread,       \* TaskQueue._worker_thread: a loop id, 0 for None
    _non_daemon_threads,  \* TaskQueue._non_daemon_threads (threads by task id)
    _shutdown,            \* ThreadPoolExecutor._shutdown of TaskQueue._executor
    loop,                 \* position of each dispatch-loop thread
    worker,               \* position of the thread executing each task
    client,               \* position, locals and return value of each caller
    calls,                \* number of API calls issued so far
    cancel_true,          \* history: ids for which cancel_task returned True
    _results_callbacks,   \* TaskQueue._results_callbacks: the ids with a list
                          \* holding the callback passed to add_task
    invoked,              \* history: calls made of each task's callback
    now,                  \* time.time()
    terminal_at           \* history: when each task's status last became
                          \* Completed, Failed or Cancelled; 0 before that

VARIABLES
    memory,               \* Memory.memory["log"]: the short-term log
    memory_file,          \* the log stored in MEMORY_FILE
    long_term_file,       \* the log stored in LONG_TERM_MEMORY_FILE
    clock,                \* datetime.now(): the next timestamp
    trimmed,              \* history: the last call ran trim_memory
    moved,                \* history: the last call ran a migration
    pre,                  \* history: the short-term log that trim_memory found
    pre_long,             \* history: the long-term log the last migration read
    migrated,             \* history: the entries the last migration moved
    has_log,              \* "log" in Memory.memory
    raised,               \* the exception the last call raised to its caller
    failed_write,         \* history: a file write of the last call failed
    store_thread,         \* position and locals of each thread inside a
                          \* store call
    returned,             \* the value the last reading call returned
    asked                 \* history: the arguments of the last search_memory
                          \* call, <<>> after any other call

VARIABLES
    is_playing_audio_event,  \* voice_output.is_playing_audio_event is set
    play_thread,             \* position of the thread of each
                             \* speak_text_edge_tts call inside _play_task
    speaker                  \* position of the script that speaks and then
                             \* waits for the playback to end

\* the variables of the task engine, of the memory store and of the voice
\* output
engvars == <<task, _tasks, _task_queue, _running, _worker_thread,
             _non_daemon_threads, _shutdown, loop, worker, client, calls,
             cancel_true, _results_callbacks, invoked, now, terminal_at>>
memvars == <<memory, memory_file, long_term_file, clock, trimmed, moved, pre,
             pre_long, migrated, has_log, raised, failed_write,
             store_thread,
             returned, asked>>

voicevars == <<is_playing_audio_event, play_thread, speaker>>

vars == <<task, _tasks, _task_queue, _running, _worker_thread,
          _non_daemon_threads, _shutdown, loop, worker, client, calls,
          cancel_true, _results_callbacks, invoked, now, terminal_at,
          memory, memory_file, long_term_file, clock, trimmed, moved, pre,
          pre_long, migrated, has_log, raised, failed_write,
          store_thread, returned, asked,
          is_playing_audio_event, play_thread, speaker>>

\* ------------------------------------------------------------------------
\* queue.PriorityQueue: heapq over the tuples (priority, task)
\* ------------------------------------------------------------------------

\* Task.priority
TaskPriority(id) == DefaultPriority

\* Task.__lt__
TaskLt(a, b) == TaskPriority(a) > TaskPriority(b)

\* tuple comparison (priority, task) < (priority, task): the first differing
\* element decides; two different Task objects are never ==.
ItemLt(x, y) ==
    IF x[1] # y[1] THEN x[1] < y[1]
    ELSE IF x[2] # y[2] THEN TaskLt(x[2], y[2])
    ELSE FALSE

\* 0-based access to a heap list
At(h, pos) == h[pos + 1]
Put(h, pos, x) == [h EXCEPT ![pos + 1] = x]

\* heapq._siftdown(heap, startpos, pos) with newitem carried along
RECURSIVE SiftDown(_, _, _, _)
SiftDown(h, startpos, pos, newitem) ==
    IF pos > startpos
    THEN LET parentpos == (pos - 1) \div 2
             parent == At(h, parentpos)
         IN  IF ItemLt(newitem, parent)
             THEN SiftDown(Put(h, pos, parent), startpos, parentpos, newitem)
             ELSE Put(h, pos, newitem)
    ELSE Put(h, pos, newitem)

\* heapq._siftup(heap, pos): bubble the smaller child up to a leaf, then
\* sift the displaced item down from there
RECURSIVE SiftUpLoop(_, _, _)
SiftUpLoop(h, pos, newitem) ==
    LET endpos == Len(h)
        left == 2 * pos + 1
        rightpos == left + 1
        childpos == IF rightpos < endpos /\ ~ItemLt(At(h, left), At(h, rightpos))
                    THEN rightpos ELSE left
    IN  IF left < endpos
        THEN SiftUpLoop(Put(h, pos, At(h, childpos)), childpos, newitem)
        ELSE SiftDown(Put(h, pos, newitem), 0, pos, newitem)

\* a push that loses the item
HeapPushLost(h, item) == h

\* heapq.heappush
HeapPush(h, item) == SiftDown(Append(h, item), 0, Len(h), item)

\* heapq.heappop: the item returned
HeapTop(h) == h[1]

\* a pop that leaves the item in the heap
HeapRestAll(h) == h

\* heapq.heappop: the heap left behind
HeapRest(h) ==
    LET lastelt == h[Len(h)]
        rest == SubSeq(h, 1, Len(h) - 1)
    IN  IF rest = <<>> THEN rest
        ELSE SiftUpLoop(Put(rest, 0, lastelt), 0, lastelt)

\* ------------------------------------------------------------------------
\* state after TaskQueue.__init__
\* ------------------------------------------------------------------------
NoReport == [status |-> None, result |-> None,
             is_complete |-> FALSE, is_failed |-> FALSE]

\* a caller thread: pc is its position, tid the task id it passed or got,
\* snap the list copy stop() iterates, seen the status a call read,
\* ret what the last call returned or raised, report the last status dict,
\* max_age, timeout and start_time the arguments and local of
\* cleanup_completed_tasks and wait_for_task
IdleClient == [pc |-> "idle", tid |-> 0, snap |-> <<>>, seen |-> None,
               ret |-> None, report |-> NoReport,
               max_age |-> 0, timeout |-> 0, start_time |-> 0]

EngineInit ==
    /\ task = <<>>
    /\ _tasks = {}
    /\ _task_queue = <<>>
    /\ _running = FALSE
    /\ _worker_thread = 0
    /\ _non_daemon_threads = <<>>
    /\ _shutdown = FALSE
    /\ loop = [l \in LoopIds |-> "none"]
    /\ worker = <<>>
    /\ client = [c \in Clients |-> IdleClient]
    /\ calls = 0
    /\ cancel_true = {}
    /\ _results_callbacks = {}
    /\ invoked = <<>>
    /\ now = 1
    /\ terminal_at = <<>>

\* the importance a logged message is given, by the caller or by
\* classify_importance: one value of each class, at the thresholds
Importances == {LOW_IMPORTANCE_THRESHOLD, LOW_IMPORTANCE_THRESHOLD + 1,
                HIGH_IMPORTANCE_THRESHOLD}

\* the message of every call in the specifications that do not vary it, and
\* the text of a summary entry
Hello == "hello"
SummaryMessage == "Summary of less important memories"

\* a log entry as log_interaction and trim_memory first build it: the dict
\* {"timestamp": ..., "role": ..., "message": ..., "importance": ...}. A dict
\* is a function on its keys.
Entry(timestamp, role, message, importance) ==
    [timestamp |-> timestamp, role |-> role, message |-> message,
     importance |-> importance]

\* d[key] = value
SetKey(d, key, value) ==
    [k \in DOMAIN d \cup {key} |-> IF k = key THEN value ELSE d[k]]

\* d.update(u)
Update(d, u) ==
    [k \in DOMAIN d \cup DOMAIN u |-> IF k \in DOMAIN u THEN u[k] ELSE d[k]]

\* {} and [] (and None where the code tests truthiness)
EmptyDict == <<>>
NoTags == <<>>

\* the e.get("importance", 1) >= HIGH_IMPORTANCE_THRESHOLD test read as >
IsHighStrict(e) == e.importance > HIGH_IMPORTANCE_THRESHOLD

\* e.get("importance", 1) >= HIGH_IMPORTANCE_THRESHOLD
IsHigh(e) == e.importance >= HIGH_IMPORTANCE_THRESHOLD

\* high = [e for e in log if e.get("importance", 1) >= HIGH_IMPORTANCE_THRESHOLD]
high(log) == SelectSeq(log, IsHigh)

\* a context snapshot as a caller holds it: Memory.get_context() returns a
\* list of (role, message) tuples. A sequence value carries its Python type.
NoSnapshot == <<>>
Snapshot == <<[type |-> "tuple", items |-> <<"user", Hello>>]>>

\* model.encode(message).tolist(): a vector that the message determines
Embedding(message) == <<message>>

\* log_interaction lines 298-312: the entry appended
LogEntry(timestamp, role, message, tags, metadata, importance, context_snapshot) ==
    LET e0 == Entry(timestamp, role, message, importance)
        e1 == IF tags # NoTags THEN SetKey(e0, "tags", tags) ELSE e0
        e2 == IF metadata # EmptyDict THEN SetKey(e1, "metadata", metadata) ELSE e1
        e3 == IF importance >= HIGH_IMPORTANCE_THRESHOLD /\ context_snapshot # NoSnapshot
              THEN SetKey(e2, "context_snapshot", context_snapshot) ELSE e2
    IN  SetKey(e3, "embedding", Embedding(message))

\* the short-term logs of at most n entries an earlier run can have left
LogsUpTo(n) ==
    UNION {{[i \in 1..k |-> LogEntry(i, "user", Hello, NoTags, EmptyDict, f[i],
                                       NoSnapshot)] :
                f \in [1..k -> Importances]} : k \in 0..n}

\* the short-term logs found on disk at construction
InitLogs == LogsUpTo(MaxInitLen)

\* the threads that share one Memory object, and a thread outside any call
Threads == {"t1", "t2"}
IdleThread == [pc |-> "idle", entry |-> <<>>, keep |-> <<>>,
               long_term |-> <<>>, high |-> <<>>]

\* no call made yet on the Memory object
NoCallYet ==
    /\ trimmed = FALSE
    /\ moved = FALSE
    /\ pre = <<>>
    /\ pre_long = <<>>
    /\ migrated = <<>>
    /\ raised = None
    /\ failed_write = FALSE
    /\ store_thread = [t \in Threads |-> IdleThread]
    /\ returned = <<>>
    /\ asked = <<>>

\* Memory.__init__ / _load_memory: the short-term log is read from
\* MEMORY_FILE. The files are those an earlier run left: a run that ended
\* inside move_high_importance_to_long_term between write_long_term_memory
\* and _save_memory leaves the high entries of the short-term file in the
\* long-term file as well.
StoreLoadedAt(log, time) ==
    /\ memory = log
    /\ has_log = TRUE
    /\ memory_file = log
    /\ long_term_file = high(log)
    /\ clock = time
    /\ NoCallYet

\* the store loaded at the earliest time after the timestamps of its log
StoreLoaded(log) == StoreLoadedAt(log, Len(log) + 1)

\* Memory.__init__ / _load_memory when MEMORY_FILE does not exist:
\* read_json_file returns {} and self.memory = {} has no "log" key. Neither
\* file exists; read_long_term_memory gives {"log": []} for the absent
\* long-term file.
StoreFreshAt(time) ==
    /\ memory = <<>>
    /\ has_log = FALSE
    /\ memory_file = <<>>
    /\ long_term_file = <<>>
    /\ clock = time
    /\ NoCallYet

\* interface.voice_output imported: is_playing_audio_event =
\* threading.Event() is clear; no call made, no thread started
Speaks == 1..MaxSpeaks
VoiceInit ==
    /\ is_playing_audio_event = FALSE
    /\ play_thread = [k \in Speaks |-> "none"]
    /\ speaker = [pc |-> "script", calls |-> 0]

\* the engine constructed, the memory store on empty files
Init == EngineInit /\ VoiceInit /\ StoreLoaded(<<>>)

\* ------------------------------------------------------------------------
\* helpers
\* ------------------------------------------------------------------------
Returned(c, v) == [client EXCEPT ![c] = [IdleClient EXCEPT !.ret = v, !.tid = client[c].tid]]

InSeq(s, x) == \E i \in 1..Len(s) : s[i] = x

\* list.remove(x) on a list holding x
RECURSIVE Remove(_, _)
Remove(s, x) ==
    IF s = <<>> THEN s
    ELSE IF Head(s) = x THEN Tail(s)
    ELSE <<Head(s)>> \o Remove(Tail(s), x)

\* Thread.is_alive() of a dispatch-loop thread
LoopAlive(l) == loop[l] \in {"while", "get"}

\* Thread.is_alive() of the dedicated thread of task t
ThreadAlive(t) == worker[t] \in {"submitted", "running", "returned", "executed", "remove"}

\* Thread.join() called without a timeout
JoinReturnsWhenDead(alive, timeout) == ~alive

\* Thread.join(timeout): returns when the thread has ended or the timeout has
\* elapsed, whichever is first
JoinReturns(alive, timeout) == ~alive \/ timeout \in Nat

\* ------------------------------------------------------------------------
\* Task
\* ------------------------------------------------------------------------

\* the keyword arguments a caller gives add_task for the callable, by name
UserKwargs == {"text"}

\* Task.__init__ (add_task stores the daemon flag in kwargs, next to the
\* caller's keyword arguments; priority and callback are bound by add_task's
\* own parameters and never enter kwargs)
NewTask(d) ==
    [status |-> PENDING, priority |-> DefaultPriority,
     kwargs |-> UserKwargs \cup {"daemon"}, daemon |-> d,
     result |-> None, error |-> None,
     started_at |-> None, completed_at |-> NoTime]

\* Task.execute, first part: status = RUNNING, started_at = now
ExecStart(t) ==
    /\ worker[t] = "submitted"
    /\ task' = [task EXCEPT ![t].status = RUNNING, ![t].started_at = "set"]
    /\ worker' = [worker EXCEPT ![t] = "running"]
    /\ UNCHANGED <<_tasks, _task_queue, _running, _worker_thread,
                   _non_daemon_threads, _shutdown, loop, client, calls,
                   cancel_true,
                   _results_callbacks, invoked, now, terminal_at, memvars, voicevars>>

\* Task.execute: self.func(*args, **kwargs) returns a value, stored in
\* self.result, or raises, stored in self.error. A body that never ends is
\* this step never taken.
ExecCall(t) ==
    /\ worker[t] = "running"
    /\ \E out \in Returns \cup {Raised} :
          task' = IF out = Raised
                  THEN [task EXCEPT ![t].error = Raised]
                  ELSE [task EXCEPT ![t].result = out]
    /\ worker' = [worker EXCEPT ![t] = "returned"]
    /\ UNCHANGED <<_tasks, _task_queue, _running, _worker_thread,
                   _non_daemon_threads, _shutdown, loop, client, calls,
                   cancel_true,
                   _results_callbacks, invoked, now, terminal_at, memvars, voicevars>>

\* history: a task whose status was not terminal becomes terminal now
BecomesTerminal(t) ==
    IF task[t].status \in Terminal THEN terminal_at
    ELSE [terminal_at EXCEPT ![t] = now]

\* Task.execute with the except branch leaving the status to the success path
FinalStatusCompleted(t) == COMPLETED

\* the status Task.execute sets once the callable has ended
FinalStatus(t) == IF task[t].error # None THEN FAILED ELSE COMPLETED

\* Task.execute, last part: status = COMPLETED or FAILED (the exception is
\* re-raised to the pool future or the dedicated thread), completed_at = now
ExecFinish(t) ==
    /\ worker[t] = "returned"
    /\ task' = [task EXCEPT ![t].status = FinalStatus(t),
                            ![t].completed_at = now]
    /\ worker' = [worker EXCEPT ![t] = "executed"]
    /\ terminal_at' = BecomesTerminal(t)
    /\ UNCHANGED <<_tasks, _task_queue, _running, _worker_thread,
                   _non_daemon_threads, _shutdown, loop, client, calls,
                   cancel_true, _results_callbacks, invoked, now, memvars, voicevars>>

\* `result = future.result()` and `result = task.execute()` re-raise the
\* task's exception, which leaves the try block before the callbacks
CallbacksReached(t) == task[t].error = None

\* the callback block of _task_completed and _execute_in_non_daemon_thread:
\* `if task_id in self._results_callbacks:` each callback of the list is
\* called once (an exception it raises is caught and logged), then
\* `del self._results_callbacks[task_id]`
RunCallbacks(t) ==
    IF CallbacksReached(t) /\ t \in _results_callbacks
    THEN /\ invoked' = [invoked EXCEPT ![t] = @ + 1]
         /\ _results_callbacks' = _results_callbacks \ {t}
    ELSE UNCHANGED <<invoked, _results_callbacks>>

\* TaskQueue._task_completed: the future's done-callback; future.result()
\* re-raises a task's exception, which is caught and logged here
TaskCompleted(t) ==
    /\ worker[t] = "executed"
    /\ task[t].daemon
    /\ RunCallbacks(t)
    /\ worker' = [worker EXCEPT ![t] = "done"]
    /\ UNCHANGED <<task, _tasks, _task_queue, _running, _worker_thread,
                   _non_daemon_threads, _shutdown, loop, client, calls,
                   cancel_true, now, terminal_at, memvars, voicevars>>

\* TaskQueue._execute_in_non_daemon_thread after task.execute(): the
\* callbacks; an exception is caught and logged; finally: task_done() and the test
\* `current_thread in self._non_daemon_threads`
NonDaemonFinally(t) ==
    /\ worker[t] = "executed"
    /\ ~task[t].daemon
    /\ RunCallbacks(t)
    /\ worker' = [worker EXCEPT ![t] =
                     IF InSeq(_non_daemon_threads, t) THEN "remove" ELSE "done"]
    /\ UNCHANGED <<task, _tasks, _task_queue, _running, _worker_thread,
                   _non_daemon_threads, _shutdown, loop, client, calls,
                   cancel_true, now, terminal_at, memvars, voicevars>>

\* TaskQueue._execute_in_non_daemon_thread:
\* self._non_daemon_threads.remove(current_thread); a ValueError here ends
\* the thread
NonDaemonRemove(t) ==
    /\ worker[t] = "remove"
    /\ IF InSeq(_non_daemon_threads, t)
       THEN /\ _non_daemon_threads' = Remove(_non_daemon_threads, t)
            /\ worker' = [worker EXCEPT ![t] = "done"]
       ELSE /\ worker' = [worker EXCEPT ![t] = "crashed"]
            /\ UNCHANGED _non_daemon_threads
    /\ UNCHANGED <<task, _tasks, _task_queue, _running, _worker_thread,
                   _shutdown, loop, client, calls, cancel_true,
                   _results_callbacks, invoked, now, terminal_at, memvars, voicevars>>

\* ------------------------------------------------------------------------
\* TaskQueue._process_queue
\* ------------------------------------------------------------------------

\* `while self._running:`
LoopCheck(l) ==
    /\ loop[l] = "while"
    /\ loop' = [loop EXCEPT ![l] = IF _running THEN "get" ELSE "dead"]
    /\ UNCHANGED <<task, _tasks, _task_queue, _running, _worker_thread,
                   _non_daemon_threads, _shutdown, worker, client, calls,
                   cancel_true,
                   _results_callbacks, invoked, now, terminal_at, memvars, voicevars>>

\* the loop body: get(timeout=1.0) raises queue.Empty on an empty queue;
\* a Cancelled task is skipped; a daemon task goes to the pool (submit raises
\* RuntimeError after shutdown, caught and logged by the loop); a non-daemon
\* task gets a dedicated thread, tracked and started
LoopGet(l) ==
    /\ loop[l] = "get"
    /\ loop' = [loop EXCEPT ![l] = "while"]
    /\ IF _task_queue = <<>>
       THEN UNCHANGED <<task, _task_queue, _non_daemon_threads, worker>>
       ELSE LET item == HeapTop(_task_queue)
                id == item[2]
            IN  /\ _task_queue' = HeapRest(_task_queue)
                /\ IF task[id].status = CANCELLED
                   THEN UNCHANGED <<task, _non_daemon_threads, worker>>
                   ELSE /\ task' = [task EXCEPT ![id].kwargs = @ \ {"daemon"}]
                        /\ IF task[id].daemon
                           THEN /\ UNCHANGED _non_daemon_threads
                                /\ worker' = IF _shutdown THEN worker
                                             ELSE [worker EXCEPT ![id] = "submitted"]
                           ELSE /\ _non_daemon_threads' = Append(_non_daemon_threads, id)
                                /\ worker' = [worker EXCEPT ![id] = "submitted"]
    /\ UNCHANGED <<_tasks, _running, _worker_thread, _shutdown, client, calls,
                   cancel_true,
                   _results_callbacks, invoked, now, terminal_at, memvars, voicevars>>

\* ------------------------------------------------------------------------
\* TaskQueue API, called from the client threads
\* ------------------------------------------------------------------------

\* add_task up to the test `if not self._running`, then start()'s test
\* `if self._running: return`; cb tells whether a callback is passed
AddTaskOp(c, p, d, cb) ==
    LET id == Len(task) + 1
    IN  /\ client[c].pc = "idle"
        /\ task' = Append(task, NewTask(d))
        /\ worker' = Append(worker, "none")
        /\ invoked' = Append(invoked, 0)
        /\ terminal_at' = Append(terminal_at, 0)
        /\ _tasks' = _tasks \cup {id}
        /\ _results_callbacks' = IF cb THEN _results_callbacks \cup {id}
                                 ELSE _results_callbacks
        /\ _task_queue' = HeapPush(_task_queue, <<p, id>>)
        /\ client' = IF _running
                     THEN [client EXCEPT ![c] = [IdleClient EXCEPT !.ret = "id", !.tid = id]]
                     ELSE [client EXCEPT ![c] = [IdleClient EXCEPT !.pc = "start_spawn", !.tid = id]]
        /\ UNCHANGED <<_running, _worker_thread, _non_daemon_threads, _shutdown,
                       loop, cancel_true, now, memvars, voicevars>>

AddTask(c) ==
    /\ calls < MaxCalls
    /\ Len(task) < MaxTasks
    /\ calls' = calls + 1
    /\ \E d \in BOOLEAN : AddTaskOp(c, AddTaskPriority, d, AddTaskCallback)

\* start(), the test `if self._running: return`
Start(c) ==
    /\ client[c].pc = "idle"
    /\ calls < MaxCalls
    /\ calls' = calls + 1
    /\ client' = IF _running
                 THEN [client EXCEPT ![c] = IdleClient]
                 ELSE [client EXCEPT ![c] = [IdleClient EXCEPT !.pc = "start_spawn"]]
    /\ UNCHANGED <<task, _tasks, _task_queue, _running, _worker_thread,
                   _non_daemon_threads, _shutdown, loop, worker,
                   cancel_true,
                   _results_callbacks, invoked, now, terminal_at, memvars, voicevars>>

\* start(): self._running = True and the new dispatch thread, started
StartSpawn(c) ==
    /\ client[c].pc = "start_spawn"
    /\ \E l \in LoopIds :
          /\ loop[l] = "none"
          /\ \A k \in LoopIds : k < l => loop[k] # "none"
          /\ loop' = [loop EXCEPT ![l] = "while"]
          /\ _worker_thread' = l
    /\ _running' = TRUE
    /\ client' = Returned(c, IF client[c].tid = 0 THEN None ELSE "id")
    /\ UNCHANGED <<task, _tasks, _task_queue, _non_daemon_threads, _shutdown,
                   worker, calls, cancel_true,
                   _results_callbacks, invoked, now, terminal_at, memvars, voicevars>>

\* stop(): self._running = False
Stop(c) ==
    /\ client[c].pc = "idle"
    /\ calls < MaxCalls
    /\ calls' = calls + 1
    /\ _running' = FALSE
    /\ client' = [client EXCEPT ![c] = [IdleClient EXCEPT !.pc = "stop_join"]]
    /\ UNCHANGED <<task, _tasks, _task_queue, _worker_thread,
                   _non_daemon_threads, _shutdown, loop, worker,
                   cancel_true,
                   _results_callbacks, invoked, now, terminal_at, memvars, voicevars>>

\* stop(): the join of the dispatch thread returns; executor.shutdown(
\* wait=False); the copy self._non_daemon_threads[:] is taken
StopJoin(c) ==
    /\ client[c].pc = "stop_join"
    /\ JoinReturns(_worker_thread # 0 /\ LoopAlive(_worker_thread), JoinWorkerTimeout)
    /\ _shutdown' = TRUE
    /\ client' = IF _non_daemon_threads = <<>>
                 THEN Returned(c, "returned")
                 ELSE [client EXCEPT ![c].pc = "stop_iter",
                                     ![c].snap = _non_daemon_threads]
    /\ UNCHANGED <<task, _tasks, _task_queue, _running, _worker_thread,
                   _non_daemon_threads, loop, worker, calls,
                   cancel_true,
                   _results_callbacks, invoked, now, terminal_at, memvars, voicevars>>

\* stop(), one round of the for loop: join the thread if alive, then
\* self._non_daemon_threads.remove(thread), a ValueError if it is not there
StopIter(c) ==
    /\ client[c].pc = "stop_iter"
    /\ LET thread == Head(client[c].snap)
       IN  /\ JoinReturns(ThreadAlive(thread), JoinThreadTimeout)
           /\ IF InSeq(_non_daemon_threads, thread)
              THEN /\ _non_daemon_threads' = Remove(_non_daemon_threads, thread)
                   /\ client' = IF Tail(client[c].snap) = <<>>
                                THEN Returned(c, "returned")
                                ELSE [client EXCEPT ![c].snap = Tail(client[c].snap)]
              ELSE /\ client' = Returned(c, "ValueError")
                   /\ UNCHANGED _non_daemon_threads
    /\ UNCHANGED <<task, _tasks, _task_queue, _running, _worker_thread,
                   _shutdown, loop, worker, calls, cancel_true,
                   _results_callbacks, invoked, now, terminal_at, memvars, voicevars>>

\* Task.cancel with the test widened to "not finished yet"
CancellableOrRunning(status) == status \in {PENDING, RUNNING}

\* Task.cancel: the test `self.status == TaskStatus.PENDING`
Cancellable(status) == status = PENDING

\* cancel_task: `task_id in self._tasks`, then Task.cancel's test; the call
\* returns False at once when either fails
CancelTask(c) ==
    /\ client[c].pc = "idle"
    /\ calls < MaxCalls
    /\ calls' = calls + 1
    /\ \E id \in 1..MaxTasks :
          client' = IF id \in _tasks /\ Cancellable(task[id].status)
                    THEN [client EXCEPT ![c] = [IdleClient EXCEPT !.pc = "cancel_set",
                              !.tid = id, !.seen = task[id].status]]
                    ELSE [client EXCEPT ![c] = [IdleClient EXCEPT !.ret = "False",
                              !.tid = id,
                              !.seen = IF id \in _tasks THEN task[id].status ELSE None]]
    /\ UNCHANGED <<task, _tasks, _task_queue, _running, _worker_thread,
                   _non_daemon_threads, _shutdown, loop, worker,
                   cancel_true,
                   _results_callbacks, invoked, now, terminal_at, memvars, voicevars>>

\* Task.cancel: self.status = CANCELLED; return True
CancelSet(c) ==
    /\ client[c].pc = "cancel_set"
    /\ task' = [task EXCEPT ![client[c].tid].status = CANCELLED]
    /\ cancel_true' = cancel_true \cup {client[c].tid}
    /\ client' = [client EXCEPT ![c].pc = "idle", ![c].ret = "True"]
    /\ terminal_at' = BecomesTerminal(client[c].tid)
    /\ UNCHANGED <<_tasks, _task_queue, _running, _worker_thread,
                   _non_daemon_threads, _shutdown, loop, worker, calls,
                   _results_callbacks, invoked, now, memvars, voicevars>>

\* get_task_status
get_task_status(id) == IF id \in _tasks THEN task[id].status ELSE None

\* get_task_result without the status test
get_task_result_any(id) == IF id \in _tasks THEN task[id].result ELSE None

\* get_task_result
get_task_result(id) ==
    IF id \in _tasks /\ task[id].status = COMPLETED THEN task[id].result ELSE None

\* background_task_status: status = get_task_status(task_id)
StatusRead(c) ==
    /\ client[c].pc = "idle"
    /\ calls < MaxCalls
    /\ calls' = calls + 1
    /\ \E id \in 1..MaxTasks :
          client' = [client EXCEPT ![c] = [IdleClient EXCEPT !.pc = "status_result",
                                              !.tid = id, !.seen = get_task_status(id)]]
    /\ UNCHANGED <<task, _tasks, _task_queue, _running, _worker_thread,
                   _non_daemon_threads, _shutdown, loop, worker,
                   cancel_true,
                   _results_callbacks, invoked, now, terminal_at, memvars, voicevars>>

\* background_task_status: the dict built from status and
\* result = get_task_result(task_id)
StatusDict(status, result) ==
    [status |-> IF status # None THEN status ELSE "unknown",
     result |-> IF status = COMPLETED THEN result ELSE None,
     is_complete |-> status = COMPLETED,
     is_failed |-> status = FAILED]

\* background_task_status: result = get_task_result(task_id); return {...}
StatusResult(c) ==
    /\ client[c].pc = "status_result"
    /\ client' = [client EXCEPT ![c].pc = "idle", ![c].ret = "dict",
                     ![c].report = StatusDict(client[c].seen,
                                              get_task_result(client[c].tid))]
    /\ UNCHANGED <<task, _tasks, _task_queue, _running, _worker_thread,
                   _non_daemon_threads, _shutdown, loop, worker, calls,
                   cancel_true,
                   _results_callbacks, invoked, now, terminal_at, memvars, voicevars>>

\* time.time() advances
Tick ==
    /\ now < MaxTime
    /\ now' = now + 1
    /\ UNCHANGED <<task, _tasks, _task_queue, _running, _worker_thread,
                   _non_daemon_threads, _shutdown, loop, worker, client, calls,
                   cancel_true, _results_callbacks, invoked, terminal_at, memvars, voicevars>>

\* cleanup_completed_tasks: the test that puts a task id on to_remove
ToRemove(id, max_age) ==
    /\ task[id].status \in {COMPLETED, FAILED, CANCELLED}
    /\ task[id].completed_at # NoTime
    /\ (now - task[id].completed_at) > max_age

\* cleanup_completed_tasks(max_age): the ids on to_remove are deleted from
\* the task map. No step of another thread changes whether a task on
\* to_remove passes the test, so the scan and the deletions are one step.
cleanup_completed_tasks(c) ==
    /\ client[c].pc = "idle"
    /\ calls < MaxCalls
    /\ calls' = calls + 1
    /\ \E max_age \in 0..MaxAge :
          /\ _tasks' = {id \in _tasks : ~ToRemove(id, max_age)}
          /\ client' = [client EXCEPT ![c] = [IdleClient EXCEPT !.ret = "cleaned",
                                                              !.max_age = max_age]]
    /\ UNCHANGED <<task, _task_queue, _running, _worker_thread,
                   _non_daemon_threads, _shutdown, loop, worker,
                   cancel_true, _results_callbacks, invoked, now, terminal_at, memvars, voicevars>>

\* wait_for_task(task_id, timeout=None): the timeout test is skipped
TimedOutNever(elapsed, timeout) == FALSE

\* wait_for_task(task_id, timeout=None): the default, written as a number
\* that no timeout equals
NoTimeout == -1

\* wait_for_task: `timeout is not None and (time.time() - start_time) > timeout`
TimedOut(elapsed, timeout) == timeout # NoTimeout /\ elapsed > timeout

\* wait_for_task(task_id, timeout): start_time = time.time(). The clock of
\* the model ends at MaxTime, so calls start while it can still pass
\* start_time + timeout.
WaitStart(c) ==
    /\ client[c].pc = "idle"
    /\ calls < MaxCalls
    /\ calls' = calls + 1
    /\ \E id \in 1..MaxTasks, timeout \in 0..MaxTimeout :
          /\ now + timeout < MaxTime
          /\ client' = [client EXCEPT ![c] = [IdleClient EXCEPT !.pc = "wait_poll",
                              !.tid = id, !.timeout = timeout, !.start_time = now]]
    /\ UNCHANGED <<task, _tasks, _task_queue, _running, _worker_thread,
                   _non_daemon_threads, _shutdown, loop, worker,
                   cancel_true, _results_callbacks, invoked, now, terminal_at, memvars, voicevars>>

\* wait_for_task, one round of the loop: status = get_task_status(task_id);
\* Completed leads to the return of the result, Failed raises RuntimeError,
\* otherwise the timeout test returns None or time.sleep(0.1) ends the round
WaitPoll(c) ==
    /\ client[c].pc = "wait_poll"
    /\ LET status == get_task_status(client[c].tid)
       IN  client' =
              IF status = COMPLETED
              THEN [client EXCEPT ![c].pc = "wait_result", ![c].seen = status]
              ELSE IF status = FAILED
              THEN [client EXCEPT ![c].pc = "idle", ![c].seen = status,
                                  ![c].ret = "RuntimeError"]
              ELSE IF TimedOut(now - client[c].start_time, client[c].timeout)
              THEN [client EXCEPT ![c].pc = "idle", ![c].seen = status,
                                  ![c].ret = None]
              ELSE client
    /\ UNCHANGED <<task, _tasks, _task_queue, _running, _worker_thread,
                   _non_daemon_threads, _shutdown, loop, worker, calls,
                   cancel_true, _results_callbacks, invoked, now, terminal_at, memvars, voicevars>>

\* wait_for_task: return global_task_queue.get_task_result(task_id)
WaitResult(c) ==
    /\ client[c].pc = "wait_result"
    /\ client' = [client EXCEPT ![c].pc = "idle",
                                ![c].ret = get_task_result(client[c].tid)]
    /\ UNCHANGED <<task, _tasks, _task_queue, _running, _worker_thread,
                   _non_daemon_threads, _shutdown, loop, worker, calls,
                   cancel_true, _results_callbacks, invoked, now, terminal_at, memvars, voicevars>>

\* ------------------------------------------------------------------------
\* the engine with its callers
\* ------------------------------------------------------------------------
Next ==
    \/ AddTask("ui")
    \/ CancelTask("ui")
    \/ CancelSet("ui")
    \/ StatusRead("ui")
    \/ StatusResult("ui")
    \/ Start("main")
    \/ Stop("main")
    \/ StopJoin("main")
    \/ StopIter("main")
    \/ \E c \in Clients : StartSpawn(c)
    \/ \E l \in LoopIds : LoopCheck(l)
    \/ \E l \in LoopIds : LoopGet(l)
    \/ \E t \in 1..Len(task) : ExecStart(t)
    \/ \E t \in 1..Len(task) : ExecCall(t)
    \/ \E t \in 1..Len(task) : ExecFinish(t)
    \/ \E t \in 1..Len(task) : TaskCompleted(t)
    \/ \E t \in 1..Len(task) : NonDaemonFinally(t)
    \/ \E t \in 1..Len(task) : NonDaemonRemove(t)

Spec == Init /\ [][Next]_vars

\* ------------------------------------------------------------------------
\* the engine started and left running: submissions, cancellations and
\* status polls from the GUI thread, no stop()
\* ------------------------------------------------------------------------
NextTasks ==
    \/ AddTask("ui")
    \/ StartSpawn("ui")
    \/ CancelTask("ui")
    \/ CancelSet("ui")
    \/ StatusRead("ui")
    \/ StatusResult("ui")
    \/ \E l \in LoopIds : LoopCheck(l)
    \/ \E l \in LoopIds : LoopGet(l)
    \/ \E t \in 1..Len(task) : ExecStart(t)
    \/ \E t \in 1..Len(task) : ExecCall(t)
    \/ \E t \in 1..Len(task) : ExecFinish(t)
    \/ \E t \in 1..Len(task) : TaskCompleted(t)
    \/ \E t \in 1..Len(task) : NonDaemonFinally(t)
    \/ \E t \in 1..Len(task) : NonDaemonRemove(t)

SpecTasks == Init /\ [][NextTasks]_vars

\* ------------------------------------------------------------------------
\* the pending queue alone: daemon tasks submitted by one thread and removed
\* by the dispatch loop
\* ------------------------------------------------------------------------
OrderAdd ==
    /\ Len(task) < MaxOrderTasks
    /\ UNCHANGED calls
    /\ \E p \in Priorities : AddTaskOp("ui", p, TRUE, AddTaskCallback)

NextOrder ==
    \/ OrderAdd
    \/ StartSpawn("ui")
    \/ \E l \in LoopIds : LoopCheck(l)
    \/ \E l \in LoopIds : LoopGet(l)

SpecOrder == Init /\ [][NextOrder]_vars

\* ------------------------------------------------------------------------
\* stop() against the engine at work: submissions from the GUI thread (each
\* starting the engine when it finds it stopped), stop() from the main thread. The thread inside stop() keeps
\* being scheduled; nothing is assumed of the dispatch loop, the pool or the
\* task bodies, which may never end.
\* ------------------------------------------------------------------------
StopAdd ==
    /\ Len(task) < MaxStopTasks
    /\ UNCHANGED calls
    /\ \E d \in BOOLEAN : AddTaskOp("ui", AddTaskPriority, d, AddTaskCallback)

NextStop ==
    \/ StopAdd
    \/ StartSpawn("ui")
    \/ Stop("main")
    \/ StopJoin("main")
    \/ StopIter("main")
    \/ \E l \in LoopIds : LoopCheck(l)
    \/ \E l \in LoopIds : LoopGet(l)
    \/ \E t \in 1..Len(task) : ExecStart(t)
    \/ \E t \in 1..Len(task) : ExecCall(t)
    \/ \E t \in 1..Len(task) : ExecFinish(t)
    \/ \E t \in 1..Len(task) : TaskCompleted(t)
    \/ \E t \in 1..Len(task) : NonDaemonFinally(t)
    \/ \E t \in 1..Len(task) : NonDaemonRemove(t)

SpecStopFair ==
    /\ Init
    /\ [][NextStop]_vars
    /\ WF_vars(StopJoin("main"))
    /\ WF_vars(StopIter("main"))

\* ------------------------------------------------------------------------
\* completion callbacks: tasks submitted with or without a callback, on the
\* pool or on a dedicated thread, to an engine left running
\* ------------------------------------------------------------------------
CallbackAdd ==
    /\ Len(task) < MaxCallbackTasks
    /\ UNCHANGED calls
    /\ \E d \in BOOLEAN, cb \in BOOLEAN : AddTaskOp("ui", AddTaskPriority, d, cb)

NextCallbacks ==
    \/ CallbackAdd
    \/ StartSpawn("ui")
    \/ \E l \in LoopIds : LoopCheck(l)
    \/ \E l \in LoopIds : LoopGet(l)
    \/ \E t \in 1..Len(task) : ExecStart(t)
    \/ \E t \in 1..Len(task) : ExecCall(t)
    \/ \E t \in 1..Len(task) : ExecFinish(t)
    \/ \E t \in 1..Len(task) : TaskCompleted(t)
    \/ \E t \in 1..Len(task) : NonDaemonFinally(t)
    \/ \E t \in 1..Len(task) : NonDaemonRemove(t)

SpecCallbacks == Init /\ [][NextCallbacks]_vars

\* ------------------------------------------------------------------------
\* cleanup of the task map: pool tasks submitted and cancelled by the GUI
\* thread, cleanup_completed_tasks called from the main thread as time passes
\* ------------------------------------------------------------------------
CleanupAdd ==
    /\ Len(task) < MaxCleanupTasks
    /\ UNCHANGED calls
    /\ AddTaskOp("ui", AddTaskPriority, TRUE, AddTaskCallback)

NextCleanup ==
    \/ CleanupAdd
    \/ StartSpawn("ui")
    \/ CancelTask("ui")
    \/ CancelSet("ui")
    \/ cleanup_completed_tasks("main")
    \/ Tick
    \/ \E l \in LoopIds : LoopCheck(l)
    \/ \E l \in LoopIds : LoopGet(l)
    \/ \E t \in 1..Len(task) : ExecStart(t)
    \/ \E t \in 1..Len(task) : ExecCall(t)
    \/ \E t \in 1..Len(task) : ExecFinish(t)
    \/ \E t \in 1..Len(task) : TaskCompleted(t)

SpecCleanup == Init /\ [][NextCleanup]_vars

\* ------------------------------------------------------------------------
\* wait_for_task with a timeout: the GUI thread submits, cancels and waits,
\* the engine is left running. The waiting thread keeps being scheduled (its
\* time.sleep(0.1) returns) and the clock advances; nothing is assumed of
\* the dispatch loop, the pool or the task bodies, which may never end.
\* ------------------------------------------------------------------------
WaitAdd ==
    /\ Len(task) < MaxWaitTasks
    /\ UNCHANGED calls
    /\ \E d \in BOOLEAN : AddTaskOp("ui", AddTaskPriority, d, AddTaskCallback)

NextWait ==
    \/ WaitAdd
    \/ StartSpawn("ui")
    \/ CancelTask("ui")
    \/ CancelSet("ui")
    \/ WaitStart("ui")
    \/ WaitPoll("ui")
    \/ WaitResult("ui")
    \/ Tick
    \/ \E l \in LoopIds : LoopCheck(l)
    \/ \E l \in LoopIds : LoopGet(l)
    \/ \E t \in 1..Len(task) : ExecStart(t)
    \/ \E t \in 1..Len(task) : ExecCall(t)
    \/ \E t \in 1..Len(task) : ExecFinish(t)
    \/ \E t \in 1..Len(task) : TaskCompleted(t)
    \/ \E t \in 1..Len(task) : NonDaemonFinally(t)
    \/ \E t \in 1..Len(task) : NonDaemonRemove(t)

SpecWaitFair ==
    /\ Init
    /\ [][NextWait]_vars
    /\ WF_vars(WaitPoll("ui"))
    /\ WF_vars(WaitResult("ui"))
    /\ WF_vars(Tick)

\* ------------------------------------------------------------------------
\* Memory: the short-term log, its trim and the migration to long-term
\* ------------------------------------------------------------------------

\* medium = [e for e in log if LOW_IMPORTANCE_THRESHOLD < importance < HIGH_IMPORTANCE_THRESHOLD]
IsMedium(e) ==
    LOW_IMPORTANCE_THRESHOLD < e.importance /\ e.importance < HIGH_IMPORTANCE_THRESHOLD

\* the medium entries, newest first
mediumNewestFirst(log) ==
    LET m == SelectSeq(log, IsMedium) IN [i \in DOMAIN m |-> m[Len(m) + 1 - i]]

\* medium = [e for e in log if LOW_IMPORTANCE_THRESHOLD < importance < HIGH_IMPORTANCE_THRESHOLD]
medium(log) == SelectSeq(log, IsMedium)

\* low = [e for e in log if importance <= LOW_IMPORTANCE_THRESHOLD]
IsLow(e) == e.importance <= LOW_IMPORTANCE_THRESHOLD
low(log) == SelectSeq(log, IsLow)

\* Python's s[-n:] for n >= 0: the last n items of s; s[-0:] is s[0:], the
\* whole list
LastSlice(s, n) ==
    IF n = 0 \/ n >= Len(s) THEN s ELSE SubSeq(s, Len(s) - n + 1, Len(s))

\* max(0, MAX_HISTORY - num_high)
num_medium_to_keep(num_high) ==
    IF MAX_HISTORY - num_high > 0 THEN MAX_HISTORY - num_high ELSE 0

\* trim_memory steps 1 and 2: keep = high + medium, and when that is over
\* MAX_HISTORY, keep = high + medium[-num_medium_to_keep:]
KeepStep2(log) ==
    IF Len(high(log) \o medium(log)) > MAX_HISTORY
    THEN high(log) \o LastSlice(medium(log), num_medium_to_keep(Len(high(log))))
    ELSE high(log) \o medium(log)

\* trim_memory step 3: keep = keep[-MAX_HISTORY:] when still over MAX_HISTORY
KeepStep3(log) ==
    IF Len(KeepStep2(log)) > MAX_HISTORY
    THEN LastSlice(KeepStep2(log), MAX_HISTORY)
    ELSE KeepStep2(log)

\* the summary entry put at the end of the kept entries
AppendSummary(kept, summary) == Append(kept, summary)

\* keep.insert(0, summary)
InsertSummary(kept, summary) == <<summary>> \o kept

\* the kept entries handed on without the high ones, as if they had left the
\* log before its first save
KeepStep4Moved(log, timestamp) == SelectSeq(KeepStep3(log), IsMedium)

\* trim_memory step 4: the summary of the low entries, with the timestamp
\* of the trim, is inserted when there is a low entry
KeepStep4(log, timestamp) ==
    IF low(log) # <<>>
    THEN InsertSummary(KeepStep3(log),
                       Entry(timestamp, "system", SummaryMessage, SummaryImportance))
    ELSE KeepStep3(log)

\* long_term["log"].append(entry) without the membership test
AppendAlways(log, entry) == Append(log, entry)

\* `if entry not in long_term["log"]: long_term["log"].append(entry)`
AppendIfNew(log, entry) == IF InSeq(log, entry) THEN log ELSE Append(log, entry)

\* `for entry in high:` of move_high_importance_to_long_term
RECURSIVE AppendAll(_, _)
AppendAll(log, entries) ==
    IF entries = <<>> THEN log
    ELSE AppendAll(AppendIfNew(log, Head(entries)), Tail(entries))

\* the long-term log left as it is, whatever its length
Untruncated(log) == log

\* `if len(long_term["log"]) > LONG_TERM_MAX: long_term["log"] = long_term["log"][-LONG_TERM_MAX:]`
Truncated(log) ==
    IF Len(log) > LONG_TERM_MAX THEN LastSlice(log, LONG_TERM_MAX) ELSE log

\* json.dump of a list or a tuple: both are written as a JSON array
json_dump_value(x) == [x EXCEPT !.type = "array"]

\* json.load of a JSON array: a list
json_load_value(x) == [x EXCEPT !.type = "list"]

\* an entry with f applied to each item of its context snapshot
MapSnapshot(f(_), e) ==
    IF "context_snapshot" \in DOMAIN e
    THEN SetKey(e, "context_snapshot",
                [i \in DOMAIN e["context_snapshot"] |-> f(e["context_snapshot"][i])])
    ELSE e

\* write_json_file / write_long_term_memory: json.dump of {"log": log}, the
\* document the file holds
json_dump(log) == [i \in DOMAIN log |-> MapSnapshot(json_dump_value, log[i])]

\* read_json_file / read_long_term_memory: json.load of the document
json_load(doc) == [i \in DOMAIN doc |-> MapSnapshot(json_load_value, doc[i])]

\* move_high_importance_to_long_term: the long-term document it writes,
\* from the short-term log and the long-term document it reads
MovedLongTerm(log, long_term) ==
    json_dump(Truncated(AppendAll(json_load(long_term), high(log))))

\* the short-term log left with its high entries
MovedShortTermAll(log) == log

\* move_high_importance_to_long_term: the short-term log it leaves
\* [e for e in log if e.get("importance", 1) < HIGH_IMPORTANCE_THRESHOLD]
MovedShortTerm(log) ==
    SelectSeq(log, LAMBDA e : e.importance < HIGH_IMPORTANCE_THRESHOLD)

\* a failed write that raises nothing
WriteSwallowed(fail) == None

\* write_json_file and write_long_term_memory have no except clause, and
\* neither have _save_memory and the operations that call them: the OSError
\* of a failed open or dump reaches the caller of the operation. fail is
\* the number of the write that fails within the call, 0 when none does.
WriteRaises(fail) == IF fail # 0 THEN "OSError" ELSE None

\* the outcome of a call as far as its writes go
Written(fail) ==
    /\ raised' = WriteRaises(fail)
    /\ failed_write' = (fail # 0)

\* trim_memory on the short-term log `log`, the summary stamped `timestamp`:
\* steps 1 to 5 (the log becomes keep and is saved: write 1), then step 6,
\* move_high_importance_to_long_term (long-term file read and merged, the
\* short-term log without its high entries, the long-term file written:
\* write 2, the short-term log saved: write 3). A failed write leaves its
\* file as it was and ends the call.
Trim(log, timestamp, fail) ==
    LET keep == KeepStep4(log, timestamp)
    IN  /\ fail \in 0..3
        /\ memory' = IF fail = 1 THEN keep ELSE MovedShortTerm(keep)
        /\ memory_file' = IF fail = 1 THEN memory_file
                          ELSE IF fail \in {2, 3} THEN json_dump(keep)
                          ELSE json_dump(MovedShortTerm(keep))
        /\ long_term_file' = IF fail \in {1, 2} THEN long_term_file
                             ELSE MovedLongTerm(keep, long_term_file)
        /\ trimmed' = TRUE
        /\ moved' = (fail = 0)
        /\ pre' = log
        /\ pre_long' = IF fail = 0 THEN json_load(long_term_file) ELSE <<>>
        /\ migrated' = IF fail = 0 THEN high(keep) ELSE <<>>
        /\ Written(fail)

\* a call that runs no trim and no migration
NoTrim ==
    /\ trimmed' = FALSE
    /\ moved' = FALSE
    /\ pre' = <<>>
    /\ pre_long' = <<>>
    /\ migrated' = <<>>

\* a call that raises exc before it changes the store
Raises(exc) ==
    /\ raised' = exc
    /\ failed_write' = FALSE
    /\ NoTrim
    /\ UNCHANGED <<memory, has_log, memory_file, long_term_file, clock>>

\* a call that returns having changed nothing
ReturnsUnchanged == Raises(None)

\* _save_memory as the only write of a call that leaves the log `log`
Saved(log, fail) ==
    /\ fail \in 0..1
    /\ memory' = log
    /\ memory_file' = IF fail = 0 THEN json_dump(log) ELSE memory_file
    /\ Written(fail)
    /\ NoTrim
    /\ UNCHANGED long_term_file

\* the reply of client.chat.completions.create to a classifier: the call
\* raised, or it returned the text `content`, of which `parsed` is the JSON
\* object classify_mood_and_topic extracts ({} when it finds none)
MoodFailed == [raised |-> TRUE, parsed |-> EmptyDict]
MoodReplies ==
    {MoodFailed,
     [raised |-> FALSE, parsed |-> EmptyDict],
     [raised |-> FALSE, parsed |-> [mood |-> "happy", topic |-> "work", color |-> "#fff"]]}
ImportanceFailed == [raised |-> TRUE, content |-> <<>>]
ImportanceReplies ==
    {ImportanceFailed,
     [raised |-> FALSE, content |-> <<"7">>],
     [raised |-> FALSE, content |-> <<"9", "5">>]}

\* classify_mood_and_topic: the parsed object, {} when the call raised
classify_mood_and_topic(reply) ==
    IF reply.raised THEN EmptyDict ELSE reply.parsed

\* int(c) for c in "12345"
DigitValue(c) ==
    CASE c = "1" -> 1 [] c = "2" -> 2 [] c = "3" -> 3 [] c = "4" -> 4 [] c = "5" -> 5

\* `for c in content: if c in "12345": return int(c)`, then `return 1`
RECURSIVE FirstDigit(_)
FirstDigit(content) ==
    IF content = <<>> THEN DefaultImportance
    ELSE IF Head(content) \in {"1", "2", "3", "4", "5"} THEN DigitValue(Head(content))
    ELSE FirstDigit(Tail(content))

\* classify_importance: the first digit 1..5 of the reply, 1 when there is
\* none or the call raised
classify_importance(reply) ==
    IF reply.raised THEN DefaultImportance ELSE FirstDigit(reply.content)

\* log_interaction lines 282-285: metadata after the classifier's result
MergedMetadata(metadata, auto_meta) ==
    IF auto_meta # EmptyDict THEN Update(metadata, auto_meta) ELSE metadata

\* log_interaction lines 286-293: tags after the classifier's result
MergedTags(tags, auto_meta) ==
    LET with_mood == IF auto_meta # EmptyDict /\ "mood" \in DOMAIN auto_meta
                     THEN Append(tags, auto_meta["mood"]) ELSE tags
    IN  IF auto_meta # EmptyDict /\ "topic" \in DOMAIN auto_meta
        THEN Append(with_mood, auto_meta["topic"]) ELSE with_mood

\* log_interaction(role, message, tags, metadata, importance,
\* context_snapshot): the two classifiers are called (mood_reply and
\* importance_reply are what the language model answers), the entry is
\* built with the current timestamp and its embedding (embedded: the
\* embedding model answers, else _get_message_embedding raises), appended
\* to self.memory["log"] (KeyError when the dict has no log); then
\* trim_memory if the log is over MAX_HISTORY, else _save_memory.
log_interaction(role, message, tags, metadata, importance, context_snapshot, mood_reply, importance_reply, embedded, fail) ==
    LET auto_meta == classify_mood_and_topic(mood_reply)
        classified == IF importance = Omitted
                      THEN classify_importance(importance_reply) ELSE importance
        entry == LogEntry(clock, role, message, MergedTags(tags, auto_meta),
                          MergedMetadata(metadata, auto_meta), classified,
                          context_snapshot)
        log == Append(memory, entry)
    IN  /\ clock < MaxClock
        /\ IF ~embedded
           THEN fail = 0 /\ Raises("RuntimeError")
           ELSE IF ~has_log
           THEN fail = 0 /\ Raises("KeyError")
           ELSE IF Len(log) > MAX_HISTORY
           THEN /\ Trim(log, clock + 1, fail)
                /\ clock' = IF low(log) # <<>> THEN clock + 2 ELSE clock + 1
                /\ UNCHANGED has_log
           ELSE /\ Saved(log, fail)
                /\ clock' = clock + 1
                /\ UNCHANGED has_log
        /\ returned' = <<>>
        /\ asked' = <<>>
        /\ UNCHANGED <<engvars, voicevars, store_thread>>

\* trim_memory called by itself
trim_memory(fail) ==
    /\ clock <= MaxClock
    /\ IF ~has_log
       THEN fail = 0 /\ Raises("KeyError")
       ELSE /\ Trim(memory, clock, fail)
            /\ clock' = IF low(memory) # <<>> THEN clock + 1 ELSE clock
            /\ UNCHANGED has_log
    /\ returned' = <<>>
    /\ asked' = <<>>
    /\ UNCHANGED <<engvars, voicevars, store_thread>>

\* every entry's importance set
ReassignedAll(log, idx, new_importance) ==
    [i \in DOMAIN log |-> [log[i] EXCEPT !.importance = new_importance]]

\* self.memory["log"][idx]["importance"] = new_importance
Reassigned(log, idx, new_importance) ==
    [log EXCEPT ![idx + 1].importance = new_importance]

\* promote_memory / demote_memory: `if 0 <= idx < len(log)`, the entry's
\* importance is set and the log saved
SetImportance(idx, new_importance, fail) ==
    /\ IF ~has_log
       THEN fail = 0 /\ Raises("KeyError")
       ELSE IF 0 <= idx /\ idx < Len(memory)
       THEN /\ Saved(Reassigned(memory, idx, new_importance), fail)
            /\ UNCHANGED <<has_log, clock>>
       ELSE fail = 0 /\ ReturnsUnchanged
    /\ returned' = <<>>
    /\ asked' = <<>>
    /\ UNCHANGED <<engvars, voicevars, store_thread>>

\* promote_memory(idx, new_importance=5)
promote_memory(idx, new_importance, fail) == SetImportance(idx, new_importance, fail)

\* demote_memory(idx, new_importance=1)
demote_memory(idx, new_importance, fail) == SetImportance(idx, new_importance, fail)

\* move_high_importance_to_long_term called by itself: the long-term file
\* is read, the high entries leave the short-term log, the long-term file
\* is written (write 1) and the short-term log saved (write 2)
move_high_importance_to_long_term(fail) ==
    /\ IF ~has_log
       THEN fail = 0 /\ Raises("KeyError")
       ELSE /\ fail \in 0..2
            /\ memory' = MovedShortTerm(memory)
            /\ memory_file' = IF fail = 0 THEN json_dump(MovedShortTerm(memory))
                              ELSE memory_file
            /\ long_term_file' = IF fail = 1 THEN long_term_file
                                 ELSE MovedLongTerm(memory, long_term_file)
            /\ trimmed' = FALSE
            /\ moved' = (fail = 0)
            /\ pre' = <<>>
            /\ pre_long' = IF fail = 0 THEN json_load(long_term_file) ELSE <<>>
            /\ migrated' = IF fail = 0 THEN high(memory) ELSE <<>>
            /\ Written(fail)
            /\ UNCHANGED <<has_log, clock>>
    /\ returned' = <<>>
    /\ asked' = <<>>
    /\ UNCHANGED <<engvars, voicevars, store_thread>>

\* clear_memory: self.memory = {"log": []}, saved
clear_memory(fail) ==
    /\ Saved(<<>>, fail)
    /\ has_log' = TRUE
    /\ returned' = <<>>
    /\ asked' = <<>>
    /\ UNCHANGED <<clock, engvars, voicevars, store_thread>>

\* ------------------------------------------------------------------------
\* SpecMemory: the store loaded from the files an earlier run left, then
\* any sequence of calls from the one thread that owns it. The language
\* model is not reached (both classifiers fall back), the embedding model
\* answers and every write succeeds.
\* ------------------------------------------------------------------------
InitMemory == EngineInit /\ VoiceInit /\ \E log \in InitLogs : StoreLoaded(log)

\* the positions a caller passes: those of the log, the one before the
\* first and the one after the last
Indexes(log) == -1..Len(log)

LogPlain(fail) ==
    \E importance \in Importances :
        log_interaction("user", Hello, NoTags, EmptyDict, importance, NoSnapshot,
                        MoodFailed, ImportanceFailed, TRUE, fail)

PromotePlain(fail) ==
    \E idx \in Indexes(memory) : promote_memory(idx, PromoteImportance, fail)

DemotePlain(fail) ==
    \E idx \in Indexes(memory) : demote_memory(idx, DemoteImportance, fail)

NextMemory ==
    \/ LogPlain(0)
    \/ trim_memory(0)
    \/ PromotePlain(0)
    \/ DemotePlain(0)
    \/ move_high_importance_to_long_term(0)

SpecMemory == InitMemory /\ [][NextMemory]_vars

\* ------------------------------------------------------------------------
\* SpecLog: one thread calls the store with every kind of argument, while
\* the language model answers, answers nonsense or is not reached and the
\* embedding model answers or not. The store is constructed with or
\* without a memory file. Every write succeeds.
\* ------------------------------------------------------------------------
CallerTags == {NoTags, <<"mine">>}
CallerMetadata == {EmptyDict, [mood |-> "sad", source |-> "cli"]}
CallerImportances == Importances \cup {Omitted}
CallerSnapshots == {NoSnapshot, Snapshot}

\* the replies to classify_importance, which is called only when the
\* importance is left out
RepliesFor(importance) ==
    IF importance = Omitted THEN ImportanceReplies ELSE {ImportanceFailed}

\* the store is constructed at time MaxInitLen + 1
InitLog ==
    /\ EngineInit
    /\ VoiceInit
    /\ \/ StoreFreshAt(MaxInitLen + 1)
       \/ \E log \in InitLogs : StoreLoadedAt(log, MaxInitLen + 1)

\* the caller gives the tags and the metadata, or neither
LogCall ==
    /\ clock <= MaxLogClock
    /\ \E given \in BOOLEAN, importance \in CallerImportances,
          context_snapshot \in CallerSnapshots, mood_reply \in MoodReplies,
          embedded \in BOOLEAN :
          \E tags \in IF given THEN CallerTags \ {NoTags} ELSE {NoTags},
             metadata \in IF given THEN CallerMetadata \ {EmptyDict} ELSE {EmptyDict},
             importance_reply \in RepliesFor(importance) :
             log_interaction("user", Hello, tags, metadata, importance,
                             context_snapshot, mood_reply, importance_reply,
                             embedded, 0)

NextLog ==
    \/ LogCall
    \/ trim_memory(0)
    \/ PromotePlain(0)
    \/ DemotePlain(0)
    \/ clear_memory(0)

SpecLog == InitLog /\ [][NextLog]_vars

\* ------------------------------------------------------------------------
\* SpecPersist: the calls of SpecMemory and clear_memory, on a file system
\* in which any write of a call may fail (disk full, file not writable).
\* ------------------------------------------------------------------------
PersistLog == clock <= MaxPersistClock /\ \E fail \in 0..3 : LogPlain(fail)
PersistTrim == clock <= MaxPersistClock /\ \E fail \in 0..3 : trim_memory(fail)
PersistPromote == \E fail \in 0..1 : PromotePlain(fail)
PersistDemote == \E fail \in 0..1 : DemotePlain(fail)
PersistMove == \E fail \in 0..2 : move_high_importance_to_long_term(fail)
PersistClear == \E fail \in 0..1 : clear_memory(fail)

NextPersist ==
    \/ PersistLog
    \/ PersistTrim
    \/ PersistPromote
    \/ PersistDemote
    \/ PersistMove
    \/ PersistClear

SpecPersist == Init /\ [][NextPersist]_vars

\* ------------------------------------------------------------------------
\* SpecConcurrent: two threads share one Memory object and each calls
\* log_interaction once. Memory holds no lock, so the statements of the two
\* calls interleave; a step is one statement that reads or writes the
\* shared log or a file. The language model is not reached, the embedding
\* model answers and every write succeeds.
\* ------------------------------------------------------------------------

\* thread t goes on as `next`: its position and locals after the step
Goto(t, next) == store_thread' = [store_thread EXCEPT ![t] = next]

\* the shared variables a step of a thread leaves alone besides the log,
\* the files and the clock
ThreadFrame ==
    UNCHANGED <<engvars, voicevars, has_log, trimmed, moved, pre, pre_long, migrated,
                raised, failed_write, returned, asked>>

\* log_interaction lines 298-313: the entry is built and appended
ThreadAppend(t) ==
    /\ store_thread[t].pc = "idle"
    /\ \E importance \in Importances :
        LET entry == LogEntry(clock, "user", Hello, NoTags, EmptyDict,
                              importance, NoSnapshot)
        IN  /\ memory' = Append(memory, entry)
            /\ Goto(t, [store_thread[t] EXCEPT !.pc = "test", !.entry = entry])
    /\ clock' = clock + 1
    /\ UNCHANGED <<memory_file, long_term_file>>
    /\ ThreadFrame

\* line 315: `if len(self.memory["log"]) > MAX_HISTORY`
ThreadTest(t) ==
    /\ store_thread[t].pc = "test"
    /\ Goto(t, [store_thread[t] EXCEPT
                  !.pc = IF Len(memory) > MAX_HISTORY THEN "trim" ELSE "save"])
    /\ UNCHANGED <<memory, memory_file, long_term_file, clock>>
    /\ ThreadFrame

\* self._save_memory(): the log as it is now is written to MEMORY_FILE. It
\* ends log_interaction (line 318) and move_high_importance_to_long_term
\* (line 367), and is trim_memory's step 5 (line 431).
ThreadSave(t, to) ==
    /\ memory_file' = json_dump(memory)
    /\ Goto(t, [store_thread[t] EXCEPT !.pc = to])
    /\ UNCHANGED <<memory, long_term_file, clock>>
    /\ ThreadFrame

\* line 318: the save of a call that does not trim
ThreadLogSave(t) ==
    /\ store_thread[t].pc = "save"
    /\ ThreadSave(t, "returned")

\* trim_memory lines 390-404: high, medium and low are read from the log
\* and keep is computed from them
ThreadPartition(t) ==
    /\ store_thread[t].pc = "trim"
    /\ Goto(t, [store_thread[t] EXCEPT
                  !.pc = IF low(memory) # <<>> THEN "summarize" ELSE "assign",
                  !.keep = KeepStep3(memory)])
    /\ UNCHANGED <<memory, memory_file, long_term_file, clock>>
    /\ ThreadFrame

\* trim_memory lines 407-427: generate_response is called and the summary
\* entry, stamped now, inserted in keep
ThreadSummarize(t) ==
    /\ store_thread[t].pc = "summarize"
    /\ Goto(t, [store_thread[t] EXCEPT
                  !.pc = "assign",
                  !.keep = InsertSummary(@, Entry(clock, "system", SummaryMessage,
                                                  SummaryImportance))])
    /\ clock' = clock + 1
    /\ UNCHANGED <<memory, memory_file, long_term_file>>
    /\ ThreadFrame

\* trim_memory line 430: self.memory["log"] = keep
ThreadAssign(t) ==
    /\ store_thread[t].pc = "assign"
    /\ memory' = store_thread[t].keep
    /\ Goto(t, [store_thread[t] EXCEPT !.pc = "trim_save"])
    /\ UNCHANGED <<memory_file, long_term_file, clock>>
    /\ ThreadFrame

\* trim_memory line 431
ThreadTrimSave(t) ==
    /\ store_thread[t].pc = "trim_save"
    /\ ThreadSave(t, "move_read")

\* move_high_importance_to_long_term line 353: the long-term file is read
ThreadMoveRead(t) ==
    /\ store_thread[t].pc = "move_read"
    /\ Goto(t, [store_thread[t] EXCEPT !.pc = "move_high",
                                       !.long_term = json_load(long_term_file)])
    /\ UNCHANGED <<memory, memory_file, long_term_file, clock>>
    /\ ThreadFrame

\* line 354: high is read from the log
ThreadMoveHigh(t) ==
    /\ store_thread[t].pc = "move_high"
    /\ Goto(t, [store_thread[t] EXCEPT !.pc = "move_remove",
                                       !.high = high(memory)])
    /\ UNCHANGED <<memory, memory_file, long_term_file, clock>>
    /\ ThreadFrame

\* lines 356-358: the log becomes its entries below the threshold
ThreadMoveRemove(t) ==
    /\ store_thread[t].pc = "move_remove"
    /\ memory' = MovedShortTerm(memory)
    /\ Goto(t, [store_thread[t] EXCEPT !.pc = "move_write"])
    /\ UNCHANGED <<memory_file, long_term_file, clock>>
    /\ ThreadFrame

\* lines 360-366: high is merged into the long-term log read at line 353,
\* which is truncated and written
ThreadMoveWrite(t) ==
    /\ store_thread[t].pc = "move_write"
    /\ long_term_file' = json_dump(Truncated(AppendAll(store_thread[t].long_term,
                                                       store_thread[t].high)))
    /\ Goto(t, [store_thread[t] EXCEPT !.pc = "move_save"])
    /\ UNCHANGED <<memory, memory_file, clock>>
    /\ ThreadFrame

\* line 367
ThreadMoveSave(t) ==
    /\ store_thread[t].pc = "move_save"
    /\ ThreadSave(t, "returned")

\* the store loaded from a short-term file of up to MAX_HISTORY entries
InitConcurrent ==
    EngineInit /\ VoiceInit /\ \E log \in LogsUpTo(MAX_HISTORY) : StoreLoaded(log)

NextConcurrent ==
    \E t \in Threads :
        \/ ThreadAppend(t)
        \/ ThreadTest(t)
        \/ ThreadLogSave(t)
        \/ ThreadPartition(t)
        \/ ThreadSummarize(t)
        \/ ThreadAssign(t)
        \/ ThreadTrimSave(t)
        \/ ThreadMoveRead(t)
        \/ ThreadMoveHigh(t)
        \/ ThreadMoveRemove(t)
        \/ ThreadMoveWrite(t)
        \/ ThreadMoveSave(t)

SpecConcurrent == InitConcurrent /\ [][NextConcurrent]_vars

\* ------------------------------------------------------------------------
\* The reading calls
\* ------------------------------------------------------------------------

\* [(e["role"], e["message"]) for e in log]
Pairs(log) == [i \in DOMAIN log |-> <<log[i].role, log[i].message>>]

\* str.capitalize() of a role
Capitalize(role) ==
    CASE role = "user" -> "User"
      [] role = "sage" -> "Sage"
      [] role = "system" -> "System"
      [] OTHER -> role

\* sep.join(parts): a string is the sequence of the pieces it is made of
RECURSIVE Join(_, _)
Join(sep, parts) ==
    IF parts = <<>> THEN <<>>
    ELSE IF Len(parts) = 1 THEN <<Head(parts)>>
    ELSE <<Head(parts), sep>> \o Join(sep, Tail(parts))

\* summarize_recent lines 499-500: the line of one entry,
\* f"{entry['role'].capitalize()}: {entry['message']}" and, when the entry
\* has tags, f" [tags: {', '.join(entry['tags'])}]"
FormatEntry(entry) ==
    <<Capitalize(entry.role), ": ", entry.message>>
    \o (IF "tags" \in DOMAIN entry
        THEN <<" [tags: ">> \o Join(", ", entry["tags"]) \o <<"]">>
        ELSE <<>>)

\* "\n".join of the lines of the entries of log: the text is the sequence
\* of its lines, the empty string has none
FormatLog(log) == [i \in DOMAIN log |-> FormatEntry(log[i])]

\* get_long_term_context(limit): the long-term file is read and the pairs
\* of long_term["log"][-limit:] returned; nothing is written
get_long_term_context(limit) ==
    /\ ReturnsUnchanged
    /\ returned' = Pairs(LastSlice(json_load(long_term_file), limit))
    /\ asked' = <<>>
    /\ UNCHANGED <<engvars, voicevars, store_thread>>

\* summarize_recent(limit): the lines of self.memory["log"][-limit:] joined
\* (KeyError when the dict has no log); nothing is written
summarize_recent(limit) ==
    /\ IF ~has_log
       THEN Raises("KeyError") /\ returned' = <<>>
       ELSE ReturnsUnchanged /\ returned' = FormatLog(LastSlice(memory, limit))
    /\ asked' = <<>>
    /\ UNCHANGED <<engvars, voicevars, store_thread>>

\* ------------------------------------------------------------------------
\* SpecRead: the store loaded from the files an earlier run left; one
\* thread logs interactions of either speaker, with or without tags, runs
\* the migration and reads the two logs with every limit up to MaxLimit.
\* The language model is not reached, the embedding model answers and
\* every write succeeds.
\* ------------------------------------------------------------------------
Limits == 0..MaxLimit
Speakers == {"user", "sage"}

ReadLog ==
    \E role \in Speakers, tags \in CallerTags, importance \in Importances :
        log_interaction(role, Hello, tags, EmptyDict, importance, NoSnapshot,
                        MoodFailed, ImportanceFailed, TRUE, 0)

ReadLongTerm == \E limit \in Limits : get_long_term_context(limit)

ReadRecent == \E limit \in Limits : summarize_recent(limit)

NextRead ==
    \/ ReadLog
    \/ move_high_importance_to_long_term(0)
    \/ ReadLongTerm
    \/ ReadRecent

SpecRead == InitMemory /\ [][NextRead]_vars

\* ------------------------------------------------------------------------
\* search_memory
\* ------------------------------------------------------------------------

\* the characters of the strings given to search_memory and of the messages
\* it searches
Chars(s) ==
    CASE s = "" -> <<>>
      [] s = "Hi" -> <<"H", "i">>
      [] s = "hi" -> <<"h", "i">>
      [] s = "oh" -> <<"o", "h">>
      [] s = "ho" -> <<"h", "o">>
      [] s = Hello -> <<"h", "e", "l", "l", "o">>
      [] s = SummaryMessage -> <<"S", "u", "m">>

\* a character left as it is
SameChar(c) == c

\* str.lower() of one character
Lower(c) == IF c = "H" THEN "h" ELSE IF c = "S" THEN "s" ELSE c

\* str.lower()
lower(chars) == [i \in DOMAIN chars |-> Lower(chars[i])]

\* `sub in s` for strings
Contains(sub, s) ==
    \E k \in 0..(Len(s) - Len(sub)) : SubSeq(s, k + 1, k + Len(sub)) = sub

\* the truth value of an Optional[str]: None and "" are false
Truthy(x) == x # None /\ x # ""

\* search_memory lines 478-484: the entry passes the three tests
Passes(entry, query, tag, role) ==
    /\ ~(Truthy(query)
         /\ ~Contains(lower(Chars(query)), lower(Chars(entry.message))))
    /\ ~(Truthy(tag)
         /\ ("tags" \notin DOMAIN entry \/ ~InSeq(entry["tags"], tag)))
    /\ ~(Truthy(role) /\ entry.role # role)

\* search_memory(query, tag, role): the entries of self.memory["log"] that
\* pass, appended to results in log order (KeyError when the dict has no
\* log); nothing is written
search_memory(query, tag, role) ==
    /\ IF ~has_log
       THEN Raises("KeyError") /\ returned' = <<>>
       ELSE /\ ReturnsUnchanged
            /\ returned' = SelectSeq(memory,
                                     LAMBDA entry : Passes(entry, query, tag, role))
    /\ asked' = <<query, tag, role>>
    /\ UNCHANGED <<engvars, voicevars, store_thread>>

\* ------------------------------------------------------------------------
\* SpecSearch: the store loaded from the files an earlier run left; one
\* thread logs messages of either speaker, with or without a tag, and
\* searches the log with every combination of filters, given, empty or
\* left out. The language model is not reached, the embedding model
\* answers and every write succeeds.
\* ------------------------------------------------------------------------
Messages == {"Hi", "oh"}
Queries == {None, "", "hi", "ho"}
SearchTags == {None, "", "mine", "yours"}
SearchRoles == {None, "", "sage"}

SearchLog ==
    /\ clock <= MaxSearchClock
    /\ \E role \in Speakers, message \in Messages, tags \in CallerTags :
        log_interaction(role, message, tags, EmptyDict,
                        LOW_IMPORTANCE_THRESHOLD + 1, NoSnapshot,
                        MoodFailed, ImportanceFailed, TRUE, 0)

Search ==
    \E query \in Queries, tag \in SearchTags, role \in SearchRoles :
        search_memory(query, tag, role)

NextSearch == SearchLog \/ Search

SpecSearch == InitMemory /\ [][NextSearch]_vars

\* ------------------------------------------------------------------------
\* interface.voice_output: speak_text_edge_tts and the script that waits
\* for the playback to end
\* ------------------------------------------------------------------------

\* a step of the voice output leaves the engine and the store alone
VoiceFrame == UNCHANGED <<engvars, memvars>>

\* speak_text_edge_tts(text, voice, wait_for_completion): the thread of
\* _play_task is started; the caller joins it when wait_for_completion
speak_text_edge_tts(wait_for_completion) ==
    /\ speaker.pc = "script"
    /\ speaker.calls < MaxSpeaks
    /\ play_thread' = [play_thread EXCEPT ![speaker.calls + 1] = "started"]
    /\ speaker' = [pc |-> IF wait_for_completion THEN "join" ELSE "script",
                   calls |-> speaker.calls + 1]
    /\ UNCHANGED is_playing_audio_event
    /\ VoiceFrame

\* thread.join() returns when the thread has ended, by returning from
\* _play_task or by an exception leaving it
ThreadJoin ==
    /\ speaker.pc = "join"
    /\ play_thread[speaker.calls] \in {"done", "died"}
    /\ speaker' = [speaker EXCEPT !.pc = "script"]
    /\ UNCHANGED <<is_playing_audio_event, play_thread>>
    /\ VoiceFrame

\* _play_task line 15: is_playing_audio_event.set()
PlaySet(k) ==
    /\ play_thread[k] = "started"
    /\ is_playing_audio_event' = TRUE
    /\ play_thread' = [play_thread EXCEPT ![k] = "generate"]
    /\ UNCHANGED speaker
    /\ VoiceFrame

\* _play_task lines 17-19: the temporary file is made and the speech saved
\* into it. asyncio.run(edge_tts.Communicate(text, voice).save(filename))
\* raises when the service is not reached; nothing catches it and the
\* thread ends there.
PlayGenerate(k) ==
    /\ play_thread[k] = "generate"
    /\ \E generated \in BOOLEAN :
        play_thread' = [play_thread EXCEPT
                          ![k] = IF generated THEN "play" ELSE "died"]
    /\ UNCHANGED <<is_playing_audio_event, speaker>>
    /\ VoiceFrame

\* _play_task line 20: playsound(filename), which raises when the file
\* cannot be played; nothing catches it
PlaySound(k) ==
    /\ play_thread[k] = "play"
    /\ \E played \in BOOLEAN :
        play_thread' = [play_thread EXCEPT
                          ![k] = IF played THEN "remove" ELSE "died"]
    /\ UNCHANGED <<is_playing_audio_event, speaker>>
    /\ VoiceFrame

\* _play_task lines 21-24: os.remove(filename), its OSError passed over
PlayRemove(k) ==
    /\ play_thread[k] = "remove"
    /\ play_thread' = [play_thread EXCEPT ![k] = "clear"]
    /\ UNCHANGED <<is_playing_audio_event, speaker>>
    /\ VoiceFrame

\* _play_task line 25: is_playing_audio_event.clear()
PlayClear(k) ==
    /\ play_thread[k] = "clear"
    /\ is_playing_audio_event' = FALSE
    /\ play_thread' = [play_thread EXCEPT ![k] = "done"]
    /\ UNCHANGED speaker
    /\ VoiceFrame

\* test_playback.py line 21: the script goes on to its waiting loop
ScriptWait ==
    /\ speaker.pc = "script"
    /\ speaker.calls >= 1
    /\ speaker' = [speaker EXCEPT !.pc = "waiting"]
    /\ UNCHANGED <<is_playing_audio_event, play_thread>>
    /\ VoiceFrame

\* test_playback.py lines 23-25: `while is_playing_audio_event.is_set():`
\* sleeps and tests again, and is left when the event is clear
ScriptLoop ==
    /\ speaker.pc = "waiting"
    /\ speaker' = [speaker EXCEPT
                     !.pc = IF is_playing_audio_event THEN "waiting" ELSE "completed"]
    /\ UNCHANGED <<is_playing_audio_event, play_thread>>
    /\ VoiceFrame

\* ------------------------------------------------------------------------
\* SpecVoiceFair: the script speaks up to MaxSpeaks times, blocking or not,
\* then waits in its loop. The threads and the script are scheduled: every
\* step that stays enabled is taken. Whether the speech is generated and
\* played is the environment's choice.
\* ------------------------------------------------------------------------
Speak == \E wait_for_completion \in BOOLEAN : speak_text_edge_tts(wait_for_completion)

NextVoice ==
    \/ Speak
    \/ ThreadJoin
    \/ \E k \in Speaks :
        \/ PlaySet(k)
        \/ PlayGenerate(k)
        \/ PlaySound(k)
        \/ PlayRemove(k)
        \/ PlayClear(k)
    \/ ScriptWait
    \/ ScriptLoop

SpecVoiceFair ==
    /\ Init
    /\ [][NextVoice]_vars
    /\ \A k \in Speaks :
        /\ WF_vars(PlaySet(k))
        /\ WF_vars(PlayGenerate(k))
        /\ WF_vars(PlaySound(k))
        /\ WF_vars(PlayRemove(k))
        /\ WF_vars(PlayClear(k))
    /\ WF_vars(ThreadJoin)
    /\ WF_vars(ScriptLoop)

\* ------------------------------------------------------------------------
\* SpecRunFair: the engine left running (no stop()) with a finite set of
\* tasks submitted and cancelled from the GUI thread. The threads are
\* scheduled: the thread inside add_task goes on to start(), the dispatch
\* loop keeps turning, a pool or dedicated thread runs its task, and every
\* task body ends, by returning or by raising.
\* ------------------------------------------------------------------------
RunAdd ==
    /\ Len(task) < MaxRunTasks
    /\ UNCHANGED calls
    /\ \E d \in BOOLEAN : AddTaskOp("ui", AddTaskPriority, d, AddTaskCallback)

RunCancel == calls < MaxRunCancels /\ CancelTask("ui")

NextRun ==
    \/ RunAdd
    \/ StartSpawn("ui")
    \/ RunCancel
    \/ CancelSet("ui")
    \/ \E l \in LoopIds : LoopCheck(l)
    \/ \E l \in LoopIds : LoopGet(l)
    \/ \E t \in 1..Len(task) : ExecStart(t)
    \/ \E t \in 1..Len(task) : ExecCall(t)
    \/ \E t \in 1..Len(task) : ExecFinish(t)
    \/ \E t \in 1..Len(task) : TaskCompleted(t)
    \/ \E t \in 1..Len(task) : NonDaemonFinally(t)
    \/ \E t \in 1..Len(task) : NonDaemonRemove(t)

\* the dispatch loops and the threads that run the tasks are scheduled, and
\* the task bodies end
EngineFair(tasks) ==
    /\ \A l \in LoopIds : WF_vars(LoopCheck(l)) /\ WF_vars(LoopGet(l))
    /\ \A t \in tasks :
        /\ WF_vars(t \in DOMAIN task /\ ExecStart(t))
        /\ WF_vars(t \in DOMAIN task /\ ExecCall(t))
        /\ WF_vars(t \in DOMAIN task /\ ExecFinish(t))

SpecRunFair ==
    /\ Init
    /\ [][NextRun]_vars
    /\ WF_vars(StartSpawn("ui"))
    /\ EngineFair(1..MaxRunTasks)

\* ------------------------------------------------------------------------
\* SpecRestartFair: the GUI thread may submit a first task; the main
\* thread calls stop(); once stop() has returned the GUI thread submits
\* the later tasks, each on the pool or on a dedicated thread, and
\* add_task starts the engine again. Nobody stops it after that. All
\* threads are scheduled and every task body ends.
\* ------------------------------------------------------------------------
RestartStop == Len(task) <= 1 /\ Stop("main")

\* no stop() call has been made yet
BeforeStop == calls = 0

RestartAdd ==
    /\ \/ Len(task) = 0 /\ BeforeStop
       \/ _shutdown /\ client["main"].pc = "idle"
    /\ Len(task) < MaxRestartTasks
    /\ UNCHANGED calls
    /\ \E d \in BOOLEAN : AddTaskOp("ui", AddTaskPriority, d, AddTaskCallback)

NextRestart ==
    \/ RestartStop
    \/ StopJoin("main")
    \/ StopIter("main")
    \/ RestartAdd
    \/ StartSpawn("ui")
    \/ \E l \in LoopIds : LoopCheck(l)
    \/ \E l \in LoopIds : LoopGet(l)
    \/ \E t \in 1..Len(task) : ExecStart(t)
    \/ \E t \in 1..Len(task) : ExecCall(t)
    \/ \E t \in 1..Len(task) : ExecFinish(t)
    \/ \E t \in 1..Len(task) : TaskCompleted(t)
    \/ \E t \in 1..Len(task) : NonDaemonFinally(t)
    \/ \E t \in 1..Len(task) : NonDaemonRemove(t)

SpecRestartFair ==
    /\ Init
    /\ [][NextRestart]_vars
    /\ WF_vars(StopJoin("main"))
    /\ WF_vars(StopIter("main"))
    /\ WF_vars(StartSpawn("ui"))
    /\ EngineFair(1..MaxRestartTasks)


\* ------------------------------------------------------------------------
\* the engine's lifetime: submissions from the GUI thread while the main
\* thread starts and stops the engine, dispatch and execution in between
\* ------------------------------------------------------------------------
LifeAdd ==
    /\ Len(task) < MaxLifeTasks
    /\ UNCHANGED calls
    /\ \E d \in BOOLEAN : AddTaskOp("ui", AddTaskPriority, d, AddTaskCallback)

\* start() and stop() called by the main thread
LifeStart == calls < MaxLifeCalls /\ Start("main")
LifeStop == calls < MaxLifeCalls /\ Stop("main")

NextLife ==
    \/ LifeAdd
    \/ LifeStart
    \/ LifeStop
    \/ StopJoin("main")
    \/ StopIter("main")
    \/ \E c \in Clients : StartSpawn(c)
    \/ \E l \in LoopIds : LoopCheck(l)
    \/ \E l \in LoopIds : LoopGet(l)
    \/ \E t \in 1..Len(task) : ExecStart(t)
    \/ \E t \in 1..Len(task) : ExecCall(t)
    \/ \E t \in 1..Len(task) : ExecFinish(t)
    \/ \E t \in 1..Len(task) : TaskCompleted(t)
    \/ \E t \in 1..Len(task) : NonDaemonFinally(t)
    \/ \E t \in 1..Len(task) : NonDaemonRemove(t)

SpecLife == Init /\ [][NextLife]_vars


\* ------------------------------------------------------------------------
\* wait_for_task without a timeout: the GUI thread submits a task and waits
\* for it while another thread may cancel it
\* ------------------------------------------------------------------------
ForeverAdd ==
    /\ Len(task) < MaxForeverTasks
    /\ UNCHANGED calls
    /\ \E d \in BOOLEAN : AddTaskOp("ui", AddTaskPriority, d, AddTaskCallback)

\* wait_for_task(task_id): start_time = time.time(), timeout is None
WaitForeverStart(c) ==
    /\ client[c].pc = "idle"
    /\ calls < MaxCalls
    /\ calls' = calls + 1
    /\ \E id \in 1..Len(task) :
          client' = [client EXCEPT ![c] = [IdleClient EXCEPT !.pc = "wait_poll",
                              !.tid = id, !.timeout = NoTimeout, !.start_time = now]]
    /\ UNCHANGED <<task, _tasks, _task_queue, _running, _worker_thread,
                   _non_daemon_threads, _shutdown, loop, worker,
                   cancel_true, _results_callbacks, invoked, now, terminal_at, memvars, voicevars>>

NextForever ==
    \/ ForeverAdd
    \/ StartSpawn("ui")
    \/ CancelTask("main")
    \/ CancelSet("main")
    \/ WaitForeverStart("ui")
    \/ WaitPoll("ui")
    \/ WaitResult("ui")
    \/ Tick
    \/ \E l \in LoopIds : LoopCheck(l)
    \/ \E l \in LoopIds : LoopGet(l)
    \/ \E t \in 1..Len(task) : ExecStart(t)
    \/ \E t \in 1..Len(task) : ExecCall(t)
    \/ \E t \in 1..Len(task) : ExecFinish(t)
    \/ \E t \in 1..Len(task) : TaskCompleted(t)
    \/ \E t \in 1..Len(task) : NonDaemonFinally(t)
    \/ \E t \in 1..Len(task) : NonDaemonRemove(t)

\* the waiting thread keeps running its loop (time.sleep(0.1) returns), and
\* so does every other thread
SpecForeverFair ==
    /\ Init
    /\ [][NextForever]_vars
    /\ WF_vars(WaitPoll("ui"))
    /\ WF_vars(WaitResult("ui"))
    /\ WF_vars(CancelSet("main"))
    /\ WF_vars(StartSpawn("ui"))
    /\ WF_vars(Tick)
    /\ EngineFair(1..MaxForeverTasks)

\* ========================================================================
\* Properties
\* ========================================================================
Created == 1..Len(task)

\* C1: once a task's status is Completed, Failed or Cancelled, no step of any
\* thread makes it Pending or Running again.
C1_StatusMonotone ==
    [][\A t \in Created :
          task[t].status \in Terminal => task'[t].status \notin {PENDING, RUNNING}]_vars

\* the priorities of the queued items are pairwise distinct
DistinctPriorities(q) ==
    \A i, j \in 1..Len(q) : i # j => q[i][1] # q[j][1]

\* the item a step takes out of the pending queue
Removed == CHOOSE x \in {_task_queue[i] : i \in 1..Len(_task_queue)} :
              \A j \in 1..Len(_task_queue') : _task_queue'[j] # x

\* C2: with N >= 2 submitted tasks of pairwise distinct priorities all still
\* in the pending queue, the task the dispatch loop removes is the one with
\* the highest priority number.
C2_HighestPriorityFirst ==
    [][(/\ Len(_task_queue') < Len(_task_queue)
        /\ Len(_task_queue) = Len(task)
        /\ Len(task) >= 2
        /\ DistinctPriorities(_task_queue))
       => \A i \in 1..Len(_task_queue) : _task_queue[i][1] <= Removed[1]]_vars

\* C3: the task the dispatch loop removes was submitted before every other
\* pending task of the same priority (ids grow with submission order).
C3_FifoAmongEqualPriority ==
    [][Len(_task_queue') < Len(_task_queue)
       => \A i \in 1..Len(_task_queue) :
             _task_queue[i][1] = Removed[1] => Removed[2] <= _task_queue[i][2]]_vars

\* a step of client c that ends one of its cancel_task calls with result r
\* (only cancel_task returns "True" or "False")
CancelReturns(c, r) ==
    /\ client'[c] # client[c]
    /\ client'[c].pc = "idle"
    /\ client'[c].ret = r

\* C4: cancel_task returns True exactly when the status it reads is Pending,
\* and the call then sets that task's status to Cancelled; a call that reads
\* Running, Completed, Failed, Cancelled or an unknown id returns False and
\* changes no task.
C4_CancelContract ==
    /\ [](\A c \in Clients :
            /\ client[c].pc = "cancel_set" => client[c].seen = PENDING
            /\ client[c].ret = "True" => client[c].seen = PENDING
            /\ client[c].ret = "False" => client[c].seen # PENDING)
    /\ [][\A c \in Clients :
            /\ CancelReturns(c, "True") =>
                  /\ task'[client[c].tid].status = CANCELLED
                  /\ \A t \in Created \ {client[c].tid} : task'[t] = task[t]
            /\ CancelReturns(c, "False") => task' = task]_vars

\* a cancel_task call has returned True for a task that is Cancelled
C4_Witness ==
    /\ client["ui"].ret = "True"
    /\ task[client["ui"].tid].status = CANCELLED
    /\ \E t \in Created : task[t].status \in {RUNNING, COMPLETED, FAILED}

\* C5: a task for which cancel_task returned True is never executed: it has
\* no start time, no result and no error, and no thread is running it.
C5_CancelledNeverExecuted ==
    \A t \in cancel_true :
        /\ task[t].started_at = None
        /\ task[t].result = None
        /\ task[t].error = None
        /\ worker[t] \in {"none", "submitted"}

\* C6: get_task_result returns the stored result when the status is
\* Completed and None in every other status or for an unknown id; the dict of
\* background_task_status carries a result only with status completed, and
\* never has is_complete and is_failed both true.
C6_ResultIffCompleted ==
    /\ \A id \in 1..MaxTasks :
          /\ get_task_result(id) # None => id \in _tasks /\ task[id].status = COMPLETED
          /\ id \in _tasks /\ task[id].status = COMPLETED
                => get_task_result(id) = task[id].result
    /\ \A c \in Clients :
          client[c].ret = "dict" =>
             /\ client[c].report.result # None =>
                   client[c].report.status = COMPLETED /\ client[c].report.is_complete
             /\ ~(client[c].report.is_complete /\ client[c].report.is_failed)

\* a status dict reporting a completed task with its result has been returned
C6_Witness ==
    /\ client["ui"].ret = "dict"
    /\ client["ui"].report.status = COMPLETED
    /\ client["ui"].report.result = "value"
    /\ get_task_result(client["ui"].tid) = "value"

\* C7: the step that ends Task.execute for a callable that raised leaves the
\* task Failed with the error stored and changes nothing of the dispatch
\* loop: its threads, the running flag and the pending queue; a Failed task
\* always has its error stored and no result.
C7_FailureIsolated ==
    /\ [](\A t \in Created :
            task[t].status = FAILED => task[t].error = Raised /\ task[t].result = None)
    /\ [][\A t \in Created :
            (worker[t] = "returned" /\ worker'[t] # "returned" /\ task[t].error = Raised)
            => /\ task'[t].status = FAILED
               /\ task'[t].error = Raised
               /\ loop' = loop
               /\ _running' = _running
               /\ _task_queue' = _task_queue]_vars

\* a task has Failed while the dispatch loop is alive, and a task submitted
\* after it has been dispatched and has Completed
C7_Witness ==
    /\ Len(task) >= 2
    /\ task[1].status = FAILED
    /\ task[1].error = Raised
    /\ task[2].status = COMPLETED
    /\ \E l \in LoopIds : LoopAlive(l)

\* C8: no stop() call ends with an exception.
C8_StopNeverRaises ==
    \A c \in Clients : client[c].ret # "ValueError"

InStop(c) == client[c].pc \in {"stop_join", "stop_iter"}

\* C9: every stop() call ends, whatever the dispatch thread, the pool and
\* the non-daemon task threads do, including never ending.
C9_StopTerminates ==
    InStop("main") ~> client["main"].pc = "idle"

\* stop() has returned while a dispatched non-daemon task is still running
C9_Witness ==
    /\ client["main"].ret = "returned"
    /\ \E t \in Created : ~task[t].daemon /\ worker[t] = "running"

\* C10: at most one dispatch-loop thread of the engine is alive.
C10_OneDispatchThread ==
    Cardinality({l \in LoopIds : LoopAlive(l)}) <= 1

\* C11: the step that follows the end of a task's execution, on the pool
\* (_task_completed) or on the dedicated thread, and whether the task
\* returned or raised, calls the callback registered for the task and
\* removes it from the engine; no callback is ever called more than once.
C11_CallbacksDelivered ==
    /\ [](\A t \in Created : invoked[t] <= 1)
    /\ [][\A t \in Created :
            (worker[t] = "executed" /\ worker'[t] # "executed"
                /\ t \in _results_callbacks)
            => /\ invoked'[t] = invoked[t] + 1
               /\ t \notin _results_callbacks']_vars

\* C12: a cleanup_completed_tasks(max_age) call removes from the task map
\* every task that is Completed, Failed or Cancelled and became so more than
\* max_age ago, and removes no task that is Pending or Running.
C12_CleanupRemovesOldTerminal ==
    [][cleanup_completed_tasks("main") =>
         \A t \in _tasks :
            /\ (task[t].status \in Terminal
                  /\ (now - terminal_at[t]) > client'["main"].max_age)
               => t \notin _tasks'
            /\ task[t].status \in {PENDING, RUNNING} => t \in _tasks']_vars

InWait(c) == client[c].pc \in {"wait_poll", "wait_result"}

\* C13: every wait_for_task(id, timeout=T) call ends. It returns the
\* task's result when the task is Completed, raises RuntimeError when it is
\* Failed, and otherwise (Pending, Running, Cancelled or unknown id) returns
\* None, and does so only once more than T has elapsed since the call began.
C13_WaitWithTimeoutTerminates ==
    /\ InWait("ui") ~> client["ui"].pc = "idle"
    /\ [][(InWait("ui") /\ client'["ui"].pc = "idle") =>
            LET id == client["ui"].tid
                status == get_task_status(id)
                ret == client'["ui"].ret
            IN  /\ status = COMPLETED => ret = task[id].result
                /\ status = FAILED => ret = "RuntimeError"
                /\ status \notin {COMPLETED, FAILED} =>
                      /\ ret = None
                      /\ now - client["ui"].start_time > client["ui"].timeout]_vars

\* a wait on a task that was dispatched and never ended has returned None
\* after the timeout, and the task is still Running
C13_Witness ==
    /\ client["ui"].pc = "idle"
    /\ client["ui"].seen = RUNNING
    /\ client["ui"].ret = None
    /\ client["ui"].tid \in Created
    /\ client["ui"].start_time > 0
    /\ now - client["ui"].start_time > client["ui"].timeout
    /\ task[client["ui"].tid].status = RUNNING

\* the entries of a log with importance >= HIGH_IMPORTANCE_THRESHOLD, those
\* between the thresholds, and those with importance <= LOW_IMPORTANCE_THRESHOLD
HighIn(log) == {log[i] : i \in {k \in 1..Len(log) :
                                 log[k].importance >= HIGH_IMPORTANCE_THRESHOLD}}
MediumIn(log) == {log[i] : i \in {k \in 1..Len(log) :
                                   /\ log[k].importance > LOW_IMPORTANCE_THRESHOLD
                                   /\ log[k].importance < HIGH_IMPORTANCE_THRESHOLD}}
LowIn(log) == {log[i] : i \in {k \in 1..Len(log) :
                                log[k].importance <= LOW_IMPORTANCE_THRESHOLD}}

\* the entries of a log
Entries(log) == {log[i] : i \in 1..Len(log)}

\* C14: after every trim_memory call, run by log_interaction or by itself,
\* the short-term log holds at most MAX_HISTORY entries, the summary entry
\* included.
C14_ShortTermWithinCap ==
    trimmed => Len(memory) <= MAX_HISTORY

\* an entry the last trim found in the short-term log and left in neither log
Dropped(e) ==
    e \in Entries(pre) /\ e \notin Entries(memory) /\ e \notin Entries(long_term_file)

\* C15: a trim drops a high entry only when the high entries alone exceed
\* MAX_HISTORY, and then retains no medium entry; the medium entries it
\* retains are the newest ones.
C15_MediumDroppedBeforeHigh ==
    trimmed =>
       /\ \A h \in HighIn(pre) :
             Dropped(h) => /\ MediumIn(pre) \cap Entries(memory) = {}
                           /\ Cardinality(HighIn(pre)) > MAX_HISTORY
       /\ \A i, j \in 1..Len(pre) :
             (i < j /\ pre[i] \in MediumIn(pre) /\ pre[j] \in MediumIn(pre)
                    /\ pre[i] \in Entries(memory))
             => pre[j] \in Entries(memory)

C17_HighNeverLost ==
    [][\A e \in HighIn(memory) :
          \/ \E i \in 1..Len(memory') : memory'[i].timestamp = e.timestamp
          \/ e \in Entries(long_term_file')]_vars

\* C18: the long-term log never holds two entries equal by value.
C18_LongTermNoDuplicates ==
    \A i, j \in 1..Len(long_term_file) :
        i # j => long_term_file[i] # long_term_file[j]

\* a migration met a high entry that long-term storage already held, and
\* also appended one it did not hold
C18_Witness ==
    /\ moved
    /\ \E e \in Entries(migrated) : e \in Entries(pre_long)
    /\ \E e \in Entries(migrated) : e \notin Entries(pre_long)
    /\ Entries(migrated) \subseteq Entries(long_term_file)

\* the long-term log a migration read, followed by the entries it moved
\* that the log did not hold
Merged ==
    pre_long \o SelectSeq(migrated, LAMBDA e : e \notin Entries(pre_long))

\* C19: after every migration the long-term log has at most LONG_TERM_MAX
\* entries and is the newest part of the merged log, in order: what is
\* removed is a prefix, and only as much of it as exceeds LONG_TERM_MAX.
C19_LongTermKeepsNewest ==
    /\ Len(long_term_file) <= LONG_TERM_MAX
    /\ moved =>
         LET removed == Len(Merged) - Len(long_term_file)
         IN  /\ removed = (IF Len(Merged) > LONG_TERM_MAX
                           THEN Len(Merged) - LONG_TERM_MAX ELSE 0)
             /\ \A i \in 1..Len(long_term_file) :
                   long_term_file[i] = Merged[removed + i]

\* a migration made the long-term log exceed LONG_TERM_MAX and its oldest
\* entry was removed
C19_Witness ==
    /\ moved
    /\ Len(Merged) > LONG_TERM_MAX
    /\ migrated # <<>>
    /\ Merged[1] \notin Entries(long_term_file)
    /\ Len(long_term_file) = LONG_TERM_MAX

\* the summary entries of a log: role system, importance 1
SummariesIn(log) ==
    {i \in 1..Len(log) : log[i].role = "system" /\ log[i].importance = SummaryImportance}

LogStep(tags, metadata, importance, context_snapshot, mood_reply, importance_reply) ==
    log_interaction("user", Hello, tags, metadata, importance, context_snapshot,
                    mood_reply, importance_reply, TRUE, 0)

\* the call returned and its entry, stamped with the time of the call, is
\* the last of the short-term log, in memory and in the persisted record
EntryStored ==
    /\ raised' = None
    /\ Len(memory') >= 1
    /\ memory'[Len(memory')].timestamp = clock
    /\ memory_file' = json_dump(memory')

\* the last entry of the short-term log after the call, its tags and its
\* metadata ([] and {} when it has none)
NewEntry == memory'[Len(memory')]
TagsOf(e) == IF "tags" \in DOMAIN e THEN e["tags"] ELSE NoTags
MetadataOf(e) == IF "metadata" \in DOMAIN e THEN e["metadata"] ELSE EmptyDict

\* C21: every log_interaction call leaves the short-term log exactly one
\* entry longer, the new entry last with an importance in 1..5, and the
\* persisted record equal to the in-memory log.
C21_LogAppendsOne ==
    [][\A tags \in CallerTags, metadata \in CallerMetadata,
          importance \in CallerImportances, context_snapshot \in CallerSnapshots,
          mood_reply \in MoodReplies, importance_reply \in ImportanceReplies :
          LogStep(tags, metadata, importance, context_snapshot, mood_reply,
                  importance_reply)
          => /\ EntryStored
             /\ Len(memory') = Len(memory) + 1
             /\ NewEntry.importance \in 1..5]_vars

\* C22: a log_interaction call in which the classifiers fail returns
\* without raising with its entry appended and persisted; the entry has
\* importance 1 when the importance classifier failed, and the caller's
\* tags and metadata and nothing else when the mood/topic classifier
\* failed.
C22_ClassifierFailureDefaults ==
    [][\A tags \in CallerTags, metadata \in CallerMetadata,
          importance \in CallerImportances, context_snapshot \in CallerSnapshots,
          mood_reply \in MoodReplies, importance_reply \in ImportanceReplies :
          (/\ mood_reply.raised \/ (importance = Omitted /\ importance_reply.raised)
           /\ LogStep(tags, metadata, importance, context_snapshot, mood_reply,
                      importance_reply))
          => /\ EntryStored
             /\ (importance = Omitted /\ importance_reply.raised)
                   => NewEntry.importance = DefaultImportance
             /\ mood_reply.raised
                   => TagsOf(NewEntry) = tags /\ MetadataOf(NewEntry) = metadata]_vars

\* C23: a log_interaction call in which the embedding computation fails
\* returns without raising, with its entry appended and persisted and
\* holding no embedding.
C23_EmbeddingBestEffort ==
    [][\A tags \in CallerTags, metadata \in CallerMetadata,
          importance \in CallerImportances, context_snapshot \in CallerSnapshots,
          mood_reply \in MoodReplies, importance_reply \in ImportanceReplies :
          log_interaction("user", Hello, tags, metadata, importance,
                          context_snapshot, mood_reply, importance_reply, FALSE, 0)
          => /\ EntryStored
             /\ "embedding" \notin DOMAIN NewEntry]_vars

\* C25: whatever calls were made, loading the persisted short-term record
\* gives the in-memory log, entry for entry.
C25_ReloadIdentical ==
    json_load(memory_file) = memory

\* C26: no call on a store, constructed with or without a memory file,
\* raises KeyError for want of a log.
C26_FreshStoreWorks ==
    raised # "KeyError"

\* C28: the entry of a log_interaction call that was given tags and
\* metadata holds exactly those tags and that metadata.
C28_CallerTagsAndMetadataKept ==
    [][\A tags \in CallerTags \ {NoTags}, metadata \in CallerMetadata \ {EmptyDict},
          importance \in CallerImportances, context_snapshot \in CallerSnapshots,
          mood_reply \in MoodReplies, importance_reply \in ImportanceReplies :
          (/\ LogStep(tags, metadata, importance, context_snapshot, mood_reply,
                      importance_reply)
           /\ EntryStored)
          => /\ TagsOf(NewEntry) = tags
             /\ MetadataOf(NewEntry) = metadata]_vars

\* C24: a call of log_interaction, trim_memory, promote_memory,
\* demote_memory, clear_memory or move_high_importance_to_long_term in which
\* a file write failed has raised the error to its caller.
C24_WriteFailureRaised ==
    failed_write => raised = "OSError"

\* a write failed after the call had changed the in-memory log, which the
\* persisted record therefore no longer equals, and the caller got the error
C24_Witness ==
    /\ failed_write
    /\ raised = "OSError"
    /\ json_dump(memory) # memory_file

\* the threads inside a mutating call
InCall == {t \in Threads : store_thread[t].pc \notin {"idle", "returned"}}

\* entry e, logged by a thread, is in the in-memory log and in the
\* persisted record
Present(e) == InSeq(memory, e) /\ InSeq(json_load(memory_file), e)

\* C27: no two mutating calls on the store overlap: at most one thread is
\* inside log_interaction at a time, and once both threads' calls have
\* returned, both entries are in the in-memory log and in the persisted
\* record. The second part is stated for the entries the trim keeps when
\* the calls run one after the other: medium entries, in a store that has
\* held no high entry (the long-term file is empty).
C27_CallsSerialized ==
    /\ Cardinality(InCall) <= 1
    /\ (/\ \A t \in Threads : store_thread[t].pc = "returned"
        /\ long_term_file = <<>>)
       => \A t \in Threads :
            IsMedium(store_thread[t].entry) => Present(store_thread[t].entry)

\* the k newest entries of log, none when k = 0
Newest(log, k) == SubSeq(log, Len(log) - k + 1, Len(log))

\* min(a, b)
Min(a, b) == IF a < b THEN a ELSE b

\* the two logs and the two files are as they were
StoresUnchanged == UNCHANGED <<memory, has_log, memory_file, long_term_file>>

\* C29: get_long_term_context(limit) returns the (role, message) pairs of
\* exactly the newest min(limit, length) long-term entries, in log order,
\* for every limit >= 0 (no pair for limit 0), and changes neither store.
C29_LongTermContextNewest ==
    [][\A limit \in Limits :
         get_long_term_context(limit) =>
            /\ returned' = Pairs(Newest(json_load(long_term_file),
                                        Min(limit, Len(long_term_file))))
            /\ StoresUnchanged]_vars

\* C30: summarize_recent(limit) formats exactly the last min(limit, length)
\* short-term entries in order (the most recent one included for
\* limit >= 1, nothing for limit 0) and changes neither log nor file.
C30_SummarizeRecentLast ==
    [][\A limit \in Limits :
         summarize_recent(limit) =>
            /\ returned' = FormatLog(Newest(memory, Min(limit, Len(memory))))
            /\ limit >= 1 /\ memory # <<>>
               => /\ returned' # <<>>
                  /\ returned'[Len(returned')] = FormatEntry(memory[Len(memory)])
            /\ StoresUnchanged]_vars

\* the importances promote_memory and demote_memory are called with
NewImportances == {PromoteImportance, DemoteImportance}

\* entries a and b differ at most in their importance
SameButImportance(a, b) == [a EXCEPT !.importance = b.importance] = b

\* the effect the contract gives a reassignment at idx to n
ReassignEffect(idx, n) ==
    IF 0 <= idx /\ idx < Len(memory)
    THEN /\ Len(memory') = Len(memory)
         /\ memory'[idx + 1].importance = n
         /\ \A i \in 1..Len(memory) :
              IF i = idx + 1 THEN SameButImportance(memory[i], memory'[i])
              ELSE memory'[i] = memory[i]
         /\ memory_file' = json_dump(memory')
         /\ long_term_file' = long_term_file
         /\ moved' = FALSE /\ trimmed' = FALSE
    ELSE UNCHANGED <<memory, memory_file, long_term_file>>

\* C31: promote_memory(idx, n) and demote_memory(idx, n) with a valid
\* index change only the importance of the entry at idx, persist the
\* short-term log and leave its length, its order and the long-term store
\* as they were, with no migration; with an index out of range they change
\* nothing.
C31_ReassignOnlyImportance ==
    [][\A idx \in Indexes(memory), n \in NewImportances :
         (promote_memory(idx, n, 0) \/ demote_memory(idx, n, 0))
            => ReassignEffect(idx, n)]_vars

\* a log of two entries of which one was promoted, saved, with nothing
\* migrated by the call
C31_Witness ==
    /\ Len(memory) >= 2
    /\ \E i \in 1..Len(memory) : memory[i].importance = PromoteImportance
    /\ \E i \in 1..Len(memory) : memory[i].importance # PromoteImportance
    /\ memory_file = json_dump(memory)
    /\ moved = FALSE

\* a filter is supplied when the argument is given and is not empty
Supplied(x) == x # None /\ x # ""

\* the letters that occur in both cases, and two characters that are the
\* same letter
BothCases == {{"H", "h"}, {"S", "s"}}
SameLetter(a, b) == a = b \/ {a, b} \in BothCases

\* the message holds the query at some offset, letters compared without
\* regard to case
HoldsIgnoringCase(message, query) ==
    \E k \in 0..(Len(message) - Len(query)) :
        \A i \in 1..Len(query) : SameLetter(message[k + i], query[i])

\* the entry satisfies every supplied filter
Satisfies(entry, query, tag, role) ==
    /\ Supplied(query) => HoldsIgnoringCase(Chars(entry.message), Chars(query))
    /\ Supplied(tag) => \E i \in 1..Len(TagsOf(entry)) : TagsOf(entry)[i] = tag
    /\ Supplied(role) => entry.role = role

\* the positions of the log whose entries satisfy the filters
Matching(query, tag, role) ==
    {i \in 1..Len(memory) : Satisfies(memory[i], query, tag, role)}

\* the k-th smallest member of a set of positions
Kth(positions, k) ==
    CHOOSE i \in positions : Cardinality({j \in positions : j <= i}) = k

\* C32: search_memory(query, tag, role) returns, in log order, exactly the
\* short-term entries that satisfy every supplied filter: the message
\* contains query whatever the case, tag is among the entry's tags, and the
\* entry's role is role.
C32_SearchExact ==
    asked # <<>> =>
        LET found == Matching(asked[1], asked[2], asked[3])
        IN  /\ Len(returned) = Cardinality(found)
            /\ \A k \in 1..Len(returned) : returned[k] = memory[Kth(found, k)]

\* a search with three filters that returned some entries of a longer log,
\* among them a message that matches only when case is ignored, and left
\* others out
C32_Witness ==
    /\ asked = <<"hi", "mine", "sage">>
    /\ Len(memory) >= 2
    /\ Len(returned) >= 1
    /\ Len(returned) < Len(memory)
    /\ \E k \in 1..Len(returned) : returned[k].message = "Hi"
    /\ \A k \in 1..Len(returned) : InSeq(memory, returned[k])

\* C33: after speak_text_edge_tts has started a playback, a loop that waits
\* while is_playing_audio_event is set terminates: once set, the event is
\* eventually cleared, also when the speech cannot be generated or played.
C33_WaitLoopTerminates ==
    /\ (speaker.pc = "waiting") ~> (speaker.pc = "completed")
    /\ is_playing_audio_event ~> ~is_playing_audio_event

\* task t has been Completed or Failed, or a cancel_task call on it has
\* returned True
Settled(t) ==
    /\ t <= Len(task)
    /\ \/ task[t].status \in {COMPLETED, FAILED}
       \/ t \in cancel_true

\* C34: while the engine keeps running and every task body ends, every
\* submitted task that is not cancelled while Pending eventually reaches
\* Completed or Failed; none stays Pending or Running forever.
C34_TasksFinish ==
    \A t \in 1..MaxRunTasks : (t <= Len(task)) ~> Settled(t)

\* two tasks were submitted and both have run to Completed or Failed
C34_Witness ==
    /\ Len(task) = MaxRunTasks
    /\ \A t \in 1..Len(task) : task[t].status \in {COMPLETED, FAILED}
    /\ \E t \in 1..Len(task) : task[t].status = FAILED

\* C35: a task submitted with add_task after stop() has been called starts
\* the engine again and is eventually executed, reaching Completed or
\* Failed, on the pool as on a dedicated thread. (In SpecRestartFair every
\* task after the first is submitted after a stop() that has returned.)
C35_RestartedTaskRuns ==
    \A t \in 2..MaxRestartTasks :
        (t <= Len(task))
            ~> (t <= Len(task) /\ task[t].status \in {COMPLETED, FAILED})


\* the callable of task t has been entered: Task.execute is past
\* self.func(*self.args, **self.kwargs)
Called(t) == worker[t] \notin {"none", "submitted", "running"}

\* C36: over the engine's lifetime, with add_task, start, stop and the
\* dispatch loops interleaved, a task's callable is invoked at most once (the
\* step that invokes it is taken for a task not invoked before, and an invoked
\* task never returns to the not-invoked state), and the keyword arguments it
\* is invoked with are exactly the caller's: the engine's parameter daemon
\* has been taken out, priority and callback never were among them
C36_InvokedOnceWithOwnArguments ==
    [][\A t \in DOMAIN task :
          /\ Called(t) => worker'[t] \notin {"none", "submitted", "running"}
          /\ (worker[t] = "running" /\ ExecCall(t))
                => ~Called(t) /\ task[t].kwargs = UserKwargs]_vars

\* a task has been invoked with the caller's arguments, and finished, on an
\* engine that was stopped and started again in between
C36_Witness ==
    \E t \in DOMAIN task :
        /\ worker[t] = "done"
        /\ task[t].kwargs = UserKwargs
        /\ _shutdown
        /\ _running
        /\ \E l \in LoopIds : l > 1 /\ loop[l] # "none"


\* the wait of the GUI thread was made without a timeout
WaitsForever == InWait("ui") /\ client["ui"].timeout = NoTimeout

\* C37: a wait_for_task(id) call made without a timeout ends once the task
\* is Completed, Failed or Cancelled: it returns the task's result when its
\* loop read Completed, raises RuntimeError when it read Failed, and returns
\* for Cancelled
C37_WaitEndsOnceTerminal ==
    /\ \A st \in Terminal :
          (WaitsForever /\ get_task_status(client["ui"].tid) = st)
              ~> client["ui"].pc = "idle"
    /\ [][(WaitsForever /\ client'["ui"].pc = "idle") =>
            LET id == client["ui"].tid
                status == client'["ui"].seen
                ret == client'["ui"].ret
            IN  /\ status \in Terminal
                /\ status = COMPLETED => ret = get_task_result(id)
                /\ status = FAILED => ret = "RuntimeError"]_vars


\* entry e, in the form json.dump writes it, is in the document doc
PersistedIn(doc, e) == InSeq(doc, json_dump(<<e>>)[1])

\* the call that has just ended ran trim_memory and broke off at write
\* `fail`: at write 2 it stopped between the save of the trimmed log and
\* the write of the long-term file, at write 3 between that write and the
\* last save
TrimBrokeOffAt(fail) ==
    trimmed' /\ failed_write' /\ (trim_memory(fail) \/ LogPlain(fail))

\* C38: when trim_memory stops between two of its three file writes, every
\* high-importance entry that survived the cap of steps 2 and 3 is in the
\* persisted short-term record or in the persisted long-term record
C38_HighPersistedBetweenWrites ==
    [][\A fail \in 2..3 :
          TrimBrokeOffAt(fail) =>
              LET survived == high(KeepStep3(pre'))
              IN  \A i \in DOMAIN survived :
                      \/ PersistedIn(memory_file', survived[i])
                      \/ PersistedIn(long_term_file', survived[i])]_vars

\* a trim has stopped after its first write: a high entry it kept has left
\* the in-memory log, is in the short-term file and not in the long-term file
C38_Witness ==
    /\ trimmed
    /\ failed_write
    /\ high(memory) = <<>>
    /\ \E i \in DOMAIN high(KeepStep3(pre)) :
          /\ PersistedIn(memory_file, high(KeepStep3(pre))[i])
          /\ ~PersistedIn(long_term_file, high(KeepStep3(pre))[i])


\* C39: after a trim_memory that returned, no entry of the short-term log,
\* in memory or as persisted, has importance >= HIGH_IMPORTANCE_THRESHOLD,
\* and no entry is in both the short-term and the long-term log
C39_NoHighLeftInShortTerm ==
    (trimmed /\ moved) =>
        /\ high(memory) = <<>>
        /\ high(json_load(memory_file)) = <<>>
        /\ Entries(memory) \cap Entries(json_load(long_term_file)) = {}

\* a trim has returned having migrated a high entry of the log it found:
\* that entry is in the long-term log, and the short-term log still holds
\* other entries
C39_Witness ==
    /\ trimmed
    /\ moved
    /\ migrated # <<>>
    /\ memory # <<>>
    /\ \E i \in DOMAIN migrated :
          /\ InSeq(pre, migrated[i])
          /\ InSeq(json_load(long_term_file), migrated[i])
          /\ ~InSeq(memory, migrated[i])


\* the entries of log `log` that are in log `of`, in the order of `log`
Among(log, of) == SelectSeq(log, LAMBDA e : InSeq(of, e))

\* the entries of log `log` that are not in log `of`, in the order of `log`
NotAmong(log, of) == SelectSeq(log, LAMBDA e : ~InSeq(of, e))

\* the first position of entry e in log `log`
PositionIn(log, e) == CHOOSE i \in 1..Len(log) :
                          log[i] = e /\ \A k \in 1..(i - 1) : log[k] # e

\* the entries of s stand in s as they stand in log `log`
InOrderOf(s, log) ==
    \A i, j \in DOMAIN s : i < j => PositionIn(log, s[i]) < PositionIn(log, s[j])

\* C40: after a trim_memory that returned, the entries of the earlier
\* short-term log that are still in it (all but the new summary) stand in
\* their earlier relative order; the entries the trim added to the
\* long-term log stand there in their short-term order, and every entry the
\* long-term log held before stands ahead of them (entries compared as the
\* files hold them)
C40_TrimKeepsOrder ==
    (trimmed /\ moved) =>
        LET long_term == long_term_file
            earlier == json_dump(pre_long)
            added == NotAmong(long_term, earlier)
        IN  /\ InOrderOf(Among(memory, pre), pre)
            /\ \A i \in DOMAIN added : InSeq(json_dump(pre), added[i])
            /\ InOrderOf(added, json_dump(pre))
            /\ \A i, j \in DOMAIN long_term :
                  (InSeq(earlier, long_term[i]) /\ ~InSeq(earlier, long_term[j]))
                      => i < j

\* a trim has returned that summarised a low entry standing between two
\* medium entries: both are still in the short-term log, behind the summary
C40_Witness ==
    /\ trimmed
    /\ moved
    /\ Len(Among(memory, pre)) >= 2
    /\ Len(memory) > Len(Among(memory, pre))
    /\ \E i, j, k \in DOMAIN pre :
          /\ i < k /\ k < j
          /\ InSeq(memory, pre[i]) /\ InSeq(memory, pre[j])
          /\ ~InSeq(memory, pre[k])

====
